---- MODULE Spec2Model ----
(***************************************************************************)
(* gcpidentitytokenportal: the token-acquisition engine and its server.    *)
(*                                                                         *)
(* Spec          one /token request in impersonation mode followed from    *)
(*               the call of GetIdentityToken to the handler's response:   *)
(*               subject-token file read, STS exchange, IAM call, with the *)
(*               upstream answers and the file's content chosen by the     *)
(*               environment.                                              *)
(* SpecClassify  CategorizeNetworkError applied to one error, drawn from a *)
(*               bounded set.                                              *)
(* SpecFunctions one call of a pure function (SanitizeString,              *)
(*               SanitizeJSON, ExtractGoogleError, the IAM URL rewrite,    *)
(*               GetImpersonationEmail) on an argument drawn from a        *)
(*               bounded set.                                              *)
(* SpecServer    the server from the start of main: the credentials check, *)
(*               os.Stat and LoadGoogleConfig, then /token requests in the *)
(*               mode startup selected, with the credentials file and the  *)
(*               subject-token file changing under it.                     *)
(* SpecExchange  one call of exchangeToken with the subject token as a     *)
(*               text and STS answers whose body may quote it.             *)
(* SpecHTTP      the server from the load of config.yaml and the template, *)
(*               then requests to every path of the mux through the        *)
(*               request-ID and logging middleware.                        *)
(* SpecWriter    the responseWriter of the logging middleware under any    *)
(*               sequence of WriteHeader and Write calls.                  *)
(* SpecLogging   goroutines writing log entries through shared and derived *)
(*               Logger structs.                                           *)
(* SpecConcurrent two calls of GetIdentityToken interleaved.               *)
(*                                                                         *)
(* Texts whose characters the code inspects (error messages, the           *)
(* impersonation URL) are sequences of one-character strings; texts the    *)
(* code only copies or compares whole (audiences, tokens) are strings.     *)
(***************************************************************************)
EXTENDS Integers, Sequences, FiniteSets, TLC

VARIABLES
    config,       \* *GoogleApplicationCredentials, loaded at startup
    logLevel,     \* Logger.level of the default logger
    tokenFile,    \* what os.ReadFile(config.CredentialSource.File) finds now
    pc,           \* position of the request inside handleToken/GetIdentityToken
    audience,     \* the audience parameter of GetIdentityToken
    jwt,          \* local jwt of GetIdentityToken
    accessToken,  \* local accessToken of GetIdentityToken
    result,       \* (identityToken, err) returned by GetIdentityToken
    hist,         \* what the acquisition did, in order: steps, requests, log records
    response,     \* what handleToken wrote to the client
    nAcq,         \* acquisitions started so far
    cErr,         \* SpecClassify: the argument of CategorizeNetworkError
    cCat,         \* SpecClassify: its result ("" before the first call)
    fArg,         \* SpecFunctions: the function applied and its argument
    fRes,         \* SpecFunctions: its result (NoRes before the call)
    env,          \* what main finds: GOOGLE_APPLICATION_CREDENTIALS,
                  \* metadata.OnGCE(), the audiences of config.yaml
    credFile,     \* the file GOOGLE_APPLICATION_CREDENTIALS names, as it is now
    main,         \* position of main and what its os.Stat found
    req,          \* the request being served: its X-Request-Id header, the ID
                  \* and context the middleware gave it, path, method, form
    prev,         \* the /token request served before it and its response
    rw,           \* the responseWriter the logging middleware wrapped around
                  \* the request's writer: statusCode and written
    gor,          \* SpecConcurrent: the locals of each goroutine inside
                  \* GetIdentityToken
    lg,           \* SpecLogging: the Logger each goroutine writes with and
                  \* its position inside Logger.log
    mu            \* SpecLogging: who holds the mutex of each Logger struct

vars == <<config, logLevel, tokenFile, pc, audience, jwt, accessToken, result,
          hist, response, nAcq, cErr, cCat, fArg, fRes, env, credFile, main,
          req, prev, rw, gor, lg, mu>>

acqVars == <<config, logLevel, tokenFile, pc, audience, jwt, accessToken,
             result, hist, response, nAcq>>

\* the variables of the specifications of single functions
fnVars == <<cErr, cCat, fArg, fRes>>

\* the variables of the specifications of goroutines side by side
conVars == <<gor, lg, mu>>

\* the variables of main and of the handler around an acquisition
srvVars == <<env, credFile, main, req, prev>>

(***************************************************************************)
(* Bounds of the model.                                                    *)
(***************************************************************************)
\* acquisitions followed one after the other
MaxAcq == 2
\* fragments an error message is made of
MaxMsgFrags == 2

(***************************************************************************)
(* internal/errors: the categories.                                        *)
(***************************************************************************)
ConfigMissing == "CONFIG_MISSING"
ConfigParseError == "CONFIG_PARSE_ERROR"
TokenFileReadError == "TOKEN_FILE_READ_ERROR"
STSHTTPError == "STS_HTTP_ERROR"
STSNon200 == "STS_NON_200"
STSResponseDecodeError == "STS_RESPONSE_DECODE_ERROR"
STSEmptyAccessToken == "STS_EMPTY_ACCESS_TOKEN"
IAMHTTPError == "IAM_HTTP_ERROR"
IAMNon200 == "IAM_NON_200"
IAMResponseDecodeError == "IAM_RESPONSE_DECODE_ERROR"
IAMEmptyToken == "IAM_EMPTY_TOKEN"
AudienceInvalid == "AUDIENCE_INVALID"
NetworkDNSError == "NETWORK_DNS_ERROR"
NetworkTimeout == "NETWORK_TIMEOUT"
InternalError == "INTERNAL_ERROR"

(***************************************************************************)
(* Character texts: strings.ToLower, strings.Contains, strings.HasSuffix.  *)
(***************************************************************************)
UpperChars == <<"A","B","C","D","E","F","G","H","I","J","K","L","M","N","O","P","Q","R","S","T","U","V","W","X","Y","Z">>
LowerChars == <<"a","b","c","d","e","f","g","h","i","j","k","l","m","n","o","p","q","r","s","t","u","v","w","x","y","z">>

LowerChar(c) ==
    IF \E i \in DOMAIN UpperChars : UpperChars[i] = c
    THEN LowerChars[CHOOSE i \in DOMAIN UpperChars : UpperChars[i] = c]
    ELSE c

ToLower(s) == [i \in DOMAIN s |-> LowerChar(s[i])]

Contains(s, substr) ==
    \E i \in 0..(Len(s) - Len(substr)) : SubSeq(s, i + 1, i + Len(substr)) = substr

\* a test that finds the suffix anywhere in s
HasSuffix_Anywhere(s, suffix) == Contains(s, suffix)

HasSuffix(s, suffix) ==
    /\ Len(s) >= Len(suffix)
    /\ SubSeq(s, Len(s) - Len(suffix) + 1, Len(s)) = suffix

\* the patterns of CategorizeNetworkError
kwDial == <<"d","i","a","l">>
kwDns == <<"d","n","s">>
kwLookup == <<"l","o","o","k","u","p">>
kwTimeout == <<"t","i","m","e","o","u","t">>
kwDeadline == <<"d","e","a","d","l","i","n","e">>

(***************************************************************************)
(* Go error values.                                                        *)
(*   nil                                                                   *)
(*   an error of the standard library: dns says that errors.As finds a     *)
(*   *net.DNSError in its chain, timeout that errors.As finds a net.Error  *)
(*   whose Timeout() is true, msg is err.Error()                           *)
(*   a *CategorizedError                                                   *)
(***************************************************************************)
NilError == [kind |-> "nil"]

StdError(dns, timeout, msg) ==
    [kind |-> "error", dns |-> dns, timeout |-> timeout, msg |-> msg]

\* fragments the error messages of the model are made of
MsgFragments == {
    <<"D","i","a","l"," ","t","c","p"," ">>,
    <<"D","N","S"," ">>,
    <<"L","o","o","k","u","p"," ">>,
    <<"i","/","o"," ","T","i","m","e","o","u","t"," ">>,
    <<"c","o","n","t","e","x","t"," ","d","e","a","d","l","i","n","e"," ","e","x","c","e","e","d","e","d">>,
    <<"c","o","n","n","e","c","t","i","o","n"," ","r","e","f","u","s","e","d"," ">>,
    <<"s","o","m","e","t","h","i","n","g"," ","w","e","n","t"," ","w","r","o","n","g">> }

RECURSIVE Messages(_)
Messages(n) ==
    IF n = 0 THEN { <<>> }
    ELSE LET shorter == Messages(n - 1)
         IN  shorter \cup { m \o f : m \in shorter, f \in MsgFragments }

StdErrors(n) ==
    { StdError(d, t, m) : d \in BOOLEAN, t \in BOOLEAN, m \in Messages(n) }

\* New with a status code set from the start
New_StatusSet(category, message, err) ==
    [kind |-> "categorized", Category |-> category, Message |-> message,
     StatusCode |-> 500, Operation |-> "", Err |-> err]

\* New (errors.go:65)
New(category, message, err) ==
    [kind |-> "categorized", Category |-> category, Message |-> message,
     StatusCode |-> 0, Operation |-> "", Err |-> err]

\* WithOperation that leaves the error as it is
WithOperation_Dropped(e, op) == e

WithOperation(e, op) == [e EXCEPT !.Operation = op]

WithStatusCode(e, code) == [e EXCEPT !.StatusCode = code]

\* errors.As(err, &catErr): the first *CategorizedError of err's chain.  The
\* chain of a standard-library error holds none.
AsCategorized(err) ==
    IF err.kind = "categorized" THEN err ELSE NilError

GetCategory(err) ==
    LET catErr == AsCategorized(err)
    IN  IF catErr.kind = "categorized" THEN catErr.Category ELSE InternalError

GetOperation(err) ==
    LET catErr == AsCategorized(err)
    IN  IF catErr.kind = "categorized" THEN catErr.Operation ELSE ""

GetStatusCode(err) ==
    LET catErr == AsCategorized(err)
    IN  IF catErr.kind = "categorized" THEN catErr.StatusCode ELSE 0

\* CategorizeNetworkError with the two textual checks in the other order
CategorizeNetworkError_TimeoutFirst(err) ==
    IF err.kind = "nil" THEN InternalError
    ELSE IF err.dns THEN NetworkDNSError
    ELSE IF err.timeout THEN NetworkTimeout
    ELSE LET errStr == ToLower(err.msg)
         IN  IF Contains(errStr, kwTimeout) \/ Contains(errStr, kwDeadline)
             THEN NetworkTimeout
             ELSE IF \/ Contains(errStr, kwDial)
                     \/ Contains(errStr, kwDns)
                     \/ Contains(errStr, kwLookup)
             THEN NetworkDNSError
             ELSE InternalError

CategorizeNetworkError(err) ==
    IF err.kind = "nil" THEN InternalError
    ELSE IF err.dns THEN NetworkDNSError
    ELSE IF err.timeout THEN NetworkTimeout
    ELSE LET errStr == ToLower(err.msg)
         IN  IF \/ Contains(errStr, kwDial)
                \/ Contains(errStr, kwDns)
                \/ Contains(errStr, kwLookup)
             THEN NetworkDNSError
             ELSE IF Contains(errStr, kwTimeout) \/ Contains(errStr, kwDeadline)
             THEN NetworkTimeout
             ELSE InternalError

(***************************************************************************)
(* internal/logging: levels and the level gate of Logger.log.              *)
(***************************************************************************)
LevelDebug == 0
LevelInfo == 1
LevelWarn == 2
LevelError == 3

Levels == {LevelDebug, LevelInfo, LevelWarn, LevelError}

\* context.Background(), and the values the middleware puts into a request's
\* context
Background == [requestID |-> "", route |-> ""]

WithRequestID(ctx, requestID) == [ctx EXCEPT !.requestID = requestID]

WithRoute(ctx, route) == [ctx EXCEPT !.route = route]

GetRequestID(ctx) == ctx.requestID

\* the entry of a logger that does not look into the context
EntryRequestID_Background(ctx) == ""

\* entry.RequestID of Logger.log
EntryRequestID(ctx) == ctx.requestID

\* Logger.log of the logger Default().WithComponent(component): nothing below
\* the logger's level is written.  Timestamp and latency_ms are not recorded.
Log(ctx, component, level, msg, fields) ==
    IF level < logLevel
    THEN << >>
    ELSE << [ev |-> "log", component |-> component, severity |-> level,
             request_id |-> EntryRequestID(ctx), route |-> ctx.route,
             message |-> msg, fields |-> fields] >>

\* middleware.go: the responseWriter of RequestLoggingMiddleware
NewResponseWriter == [statusCode |-> 200, written |-> FALSE]

\* a WriteHeader that records the last code it is given
WriteHeader_LastWins(w, code) == [statusCode |-> code, written |-> TRUE]

WriteHeader(w, code) ==
    IF ~w.written THEN [statusCode |-> code, written |-> TRUE] ELSE w

Write(w) ==
    IF ~w.written THEN [statusCode |-> 200, written |-> TRUE] ELSE w

\* http.Error(w, body, code): w.WriteHeader(code), then the body is written
HTTPError(w, code) == Write(WriteHeader(w, code))

(***************************************************************************)
(* internal/token: constants and payloads.                                 *)
(***************************************************************************)
stsUrl == "https://sts.googleapis.com/v1/token"
grantType == "urn:ietf:params:oauth:grant-type:token-exchange"
scope == "https://www.googleapis.com/auth/cloud-platform"
requestedTokenType == "urn:ietf:params:oauth:token-type:access_token"
subjectTokenType == "urn:ietf:params:oauth:token-type:jwt"

sfxGenerateAccessToken == <<":","g","e","n","e","r","a","t","e","A","c","c","e","s","s","T","o","k","e","n">>
sfxGenerateIdToken == <<":","g","e","n","e","r","a","t","e","I","d","T","o","k","e","n">>

\* encoding/json encodes every string and bool: json.Marshal of STSRequest
\* and of IAMRequest returns no error
JSONMarshalFails(payload) == FALSE

\* http.NewRequest fails when url.Parse rejects the URL: a control character
\* in it, or an empty scheme (the URL starts with a colon)
NewRequestFails(url) ==
    \/ \E i \in DOMAIN url : url[i] = "\n"
    \/ (Len(url) > 0 /\ url[1] = ":")

(***************************************************************************)
(* internal/sanitizer: SanitizeString.                                     *)
(*                                                                         *)
(* jwtPattern is \b[A-Za-z0-9_-]{20,}\.[A-Za-z0-9_-]{20,}\.[A-Za-z0-9_-]   *)
(* {20,}\b and ReplaceAllString replaces its leftmost non-overlapping      *)
(* matches, each quantifier taking as many characters as it can.           *)
(***************************************************************************)
Digits == <<"0","1","2","3","4","5","6","7","8","9">>

Range(s) == { s[i] : i \in DOMAIN s }

\* \w of the regexp package: the characters \b tells apart from the others
WordChars == Range(UpperChars) \cup Range(LowerChars) \cup Range(Digits) \cup {"_"}

\* the class [A-Za-z0-9_-] of a segment
JWTChars == WordChars \cup {"-"}

\* the {20,} of each segment
jwtMinSegment == 20

RedactedValue == <<"[","R","E","D","A","C","T","E","D","]">>

RedactedJWT == <<"[","R","E","D","A","C","T","E","D","_","J","W","T","]">>

IsWordAt(s, i) == i \in DOMAIN s /\ s[i] \in WordChars

\* \b before position i: one of s[i-1], s[i] is a word character, the other
\* is not (the ends of the text count as not)
WordBoundary(s, i) == IsWordAt(s, i - 1) # IsWordAt(s, i)

DotAt(s, i) == i \in DOMAIN s /\ s[i] = "."

SetMin(S) == CHOOSE x \in S : \A y \in S : x <= y

\* the last position of the longest run of segment characters that starts at
\* i (i - 1 when s[i] is not one)
RunEnd(s, i) ==
    SetMin({ j \in i..(Len(s) + 1) : j = Len(s) + 1 \/ s[j] \notin JWTChars }) - 1

SetMax(S) == CHOOSE x \in S : \A y \in S : y <= x

\* where the match of jwtPattern that starts at i ends, 0 when there is none.
\* The first two segments stop at the dot that follows them; the third takes
\* its whole run and gives characters back until \b holds after it.
JWTMatchEnd(s, i) ==
    LET e1 == RunEnd(s, i)
        e2 == RunEnd(s, e1 + 2)
        e3 == RunEnd(s, e2 + 2)
        ends == { e \in (e2 + 1 + jwtMinSegment)..e3 : WordBoundary(s, e + 1) }
    IN  IF /\ WordBoundary(s, i)
           /\ e1 - i + 1 >= jwtMinSegment
           /\ DotAt(s, e1 + 1)
           /\ e2 - e1 - 1 >= jwtMinSegment
           /\ DotAt(s, e2 + 1)
           /\ ends # {}
        THEN SetMax(ends)
        ELSE 0

\* jwtPattern.ReplaceAllString(s, RedactedJWT), from position i on: the text
\* up to the leftmost match is kept, the match is replaced, and the search
\* goes on behind it
RECURSIVE ReplaceAllJWT(_, _)
ReplaceAllJWT(s, i) ==
    LET starts == { k \in i..Len(s) : JWTMatchEnd(s, k) > 0 }
    IN  IF starts = {}
        THEN SubSeq(s, i, Len(s))
        ELSE LET k == SetMin(starts)
             IN  (SubSeq(s, i, k - 1) \o RedactedJWT)
                     \o ReplaceAllJWT(s, JWTMatchEnd(s, k) + 1)

SanitizeString(s) == ReplaceAllJWT(s, 1)

(***************************************************************************)
(* JSON documents.  A byte slice handed to the sanitizer is either a text  *)
(* that is no JSON (raw) or a JSON value, given as its syntax tree; JSONText*)
(* is the text of the slice.  Numbers are small naturals, which float64    *)
(* holds exactly, and strings hold no character that JSON escapes.         *)
(***************************************************************************)
JRaw(s) == [t |-> "raw", raw |-> s]

JNull == [t |-> "null"]

JNum(n) == [t |-> "number", n |-> n]

JStr(s) == [t |-> "string", s |-> s]

JArr(items) == [t |-> "array", items |-> items]

JField(k, v) == [k |-> k, v |-> v]

JObj(fields) == [t |-> "object", fields |-> fields]

RECURSIVE NumText(_)
NumText(n) ==
    IF n < 10 THEN << Digits[n + 1] >> ELSE NumText(n \div 10) \o << Digits[(n % 10) + 1] >>

RECURSIVE JSONText(_), JoinFields(_, _), JoinItems(_, _)
JoinFields(fields, i) ==
    IF i > Len(fields)
    THEN << >>
    ELSE (IF i > 1 THEN <<",">> ELSE << >>)
             \o <<"\"">> \o fields[i].k \o <<"\"", ":">> \o JSONText(fields[i].v)
             \o JoinFields(fields, i + 1)

JoinItems(items, i) ==
    IF i > Len(items)
    THEN << >>
    ELSE (IF i > 1 THEN <<",">> ELSE << >>) \o JSONText(items[i])
             \o JoinItems(items, i + 1)

JSONText(v) ==
    CASE v.t = "raw" -> v.raw
      [] v.t = "null" -> <<"n","u","l","l">>
      [] v.t = "number" -> NumText(v.n)
      [] v.t = "string" -> <<"\"">> \o v.s \o <<"\"">>
      [] v.t = "array" -> <<"[">> \o JoinItems(v.items, 1) \o <<"]">>
      [] v.t = "object" -> <<"{">> \o JoinFields(v.fields, 1) \o <<"}">>

\* the order of the bytes of the characters that keys are made of
ByteOrder == <<"-">> \o Digits \o UpperChars \o <<"_">> \o LowerChars

ByteOf(c) == CHOOSE i \in DOMAIN ByteOrder : ByteOrder[i] = c

\* a < b as Go strings
RECURSIVE TextLess(_, _)
TextLess(a, b) ==
    IF b = << >> THEN FALSE
    ELSE IF a = << >> THEN TRUE
    ELSE IF Head(a) = Head(b) THEN TextLess(Tail(a), Tail(b))
    ELSE ByteOf(Head(a)) < ByteOf(Head(b))

\* json.Marshal writes the keys of a map in sorted order
RECURSIVE SortFields(_)
SortFields(fields) ==
    IF fields = << >>
    THEN << >>
    ELSE LET i == CHOOSE i \in DOMAIN fields :
                      \A j \in DOMAIN fields : ~TextLess(fields[j].k, fields[i].k)
         IN  << fields[i] >>
                 \o SortFields(SubSeq(fields, 1, i - 1) \o SubSeq(fields, i + 1, Len(fields)))

RECURSIVE Marshal(_)
Marshal(v) ==
    CASE v.t = "object" ->
             LET sorted == SortFields(v.fields)
             IN  JObj([i \in DOMAIN sorted |->
                          JField(sorted[i].k, Marshal(sorted[i].v))])
      [] v.t = "array" -> JArr([i \in DOMAIN v.items |-> Marshal(v.items[i])])
      [] OTHER -> v

\* json.Unmarshal into a map[string]interface{}: an object or null, no other
\* JSON value and no other text
UnmarshalsToMap(v) == v.t \in {"object", "null"}

MapOf(v) == IF v.t = "object" THEN v.fields ELSE << >>

(***************************************************************************)
(* internal/sanitizer: SanitizeJSON.                                       *)
(***************************************************************************)
sensitiveFields == <<
    <<"a","c","c","e","s","s","_","t","o","k","e","n">>,
    <<"i","d","_","t","o","k","e","n">>,
    <<"t","o","k","e","n">>,
    <<"s","u","b","j","e","c","t","_","t","o","k","e","n">>,
    <<"a","u","t","h","o","r","i","z","a","t","i","o","n">>,
    <<"A","u","t","h","o","r","i","z","a","t","i","o","n">> >>

isSensitiveField(key) ==
    LET lowerKey == ToLower(key)
    IN  \E i \in DOMAIN sensitiveFields : lowerKey = ToLower(sensitiveFields[i])

\* what sanitizeMap does to the value of one key
RedactField(key, sanitized) ==
    IF isSensitiveField(key) THEN JStr(RedactedValue) ELSE sanitized

RECURSIVE sanitizeMap(_), sanitizeSlice(_)
sanitizeMap(m) ==
    [i \in DOMAIN m |->
        JField(m[i].k,
               RedactField(m[i].k,
                   CASE m[i].v.t = "object" -> JObj(sanitizeMap(m[i].v.fields))
                     [] m[i].v.t = "array" -> JArr(sanitizeSlice(m[i].v.items))
                     [] m[i].v.t = "string" -> JStr(SanitizeString(m[i].v.s))
                     [] OTHER -> m[i].v))]

sanitizeSlice(s) ==
    [i \in DOMAIN s |->
        CASE s[i].t = "object" -> JObj(sanitizeMap(s[i].fields))
          [] s[i].t = "array" -> JArr(sanitizeSlice(s[i].items))
          [] s[i].t = "string" -> JStr(SanitizeString(s[i].s))
          [] OTHER -> s[i]]

SanitizeJSON(data) ==
    IF JSONText(data) = << >>
    THEN << >>
    ELSE IF ~UnmarshalsToMap(data)
    THEN SanitizeString(JSONText(data))
    ELSE JSONText(Marshal(JObj(sanitizeMap(MapOf(data)))))

(***************************************************************************)
(* internal/sanitizer: ExtractGoogleError.                                 *)
(***************************************************************************)
\* strings.EqualFold on a key and the name of a struct field: json.Unmarshal
\* matches the keys of an object to the fields of a struct in any case
EqualFold(a, b) == ToLower(a) = ToLower(b)

\* the member of an object that json.Unmarshal stores into the field called
\* name: the last one whose key matches, null when there is none
Member(fields, name) ==
    LET at == { i \in DOMAIN fields : EqualFold(fields[i].k, name) }
    IN  IF at = {} THEN JNull ELSE fields[SetMax(at)].v

\* json.Unmarshal of one member into an int or a string field: null leaves the
\* zero value, a value of another type is an error
IntField(v) ==
    CASE v.t = "null" -> [ok |-> TRUE, val |-> 0]
      [] v.t = "number" -> [ok |-> TRUE, val |-> v.n]
      [] OTHER -> [ok |-> FALSE, val |-> 0]

StringField(v) ==
    CASE v.t = "null" -> [ok |-> TRUE, val |-> << >>]
      [] v.t = "string" -> [ok |-> TRUE, val |-> v.s]
      [] OTHER -> [ok |-> FALSE, val |-> << >>]

\* json.Unmarshal(body, &errResp)
UnmarshalErrResp(body) ==
    LET zero == [Code |-> 0, Status |-> << >>, Message |-> << >>]
        outer == IF body.t = "object" THEN Member(body.fields, <<"e","r","r","o","r">>) ELSE JNull
        inner == IF outer.t = "object" THEN outer.fields ELSE << >>
        code == IntField(Member(inner, <<"c","o","d","e">>))
        status == StringField(Member(inner, <<"s","t","a","t","u","s">>))
        message == StringField(Member(inner, <<"m","e","s","s","a","g","e">>))
    IN  IF body.t \notin {"object", "null"} \/ outer.t \notin {"object", "null"}
        THEN [ok |-> FALSE, Error |-> zero]
        ELSE [ok |-> code.ok /\ status.ok /\ message.ok,
              Error |-> [Code |-> code.val, Status |-> status.val,
                         Message |-> message.val]]

\* json.Unmarshal(body, &altResp)
UnmarshalAltResp(body) ==
    LET fields == IF body.t = "object" THEN body.fields ELSE << >>
        code == StringField(Member(fields, <<"e","r","r","o","r">>))
        desc == StringField(Member(fields, <<"e","r","r","o","r","_","d","e","s","c","r","i","p","t","i","o","n">>))
    IN  [ok |-> body.t \in {"object", "null"} /\ code.ok /\ desc.ok,
         ErrorCode |-> code.val, ErrorDesc |-> desc.val]

\* the message ExtractGoogleError returns
ReturnedMessage_AsReceived(text) == text

ReturnedMessage(text) == SanitizeString(text)

ExtractGoogleError(body) ==
    LET errResp == UnmarshalErrResp(body)
        altResp == UnmarshalAltResp(body)
    IN  IF JSONText(body) = << >>
        THEN [code |-> 0, status |-> << >>, message |-> << >>]
        ELSE IF ~errResp.ok
        THEN IF ~altResp.ok
             THEN [code |-> 0, status |-> << >>,
                   message |-> ReturnedMessage(JSONText(body))]
             ELSE [code |-> 0, status |-> altResp.ErrorCode,
                   message |-> ReturnedMessage(altResp.ErrorDesc)]
        ELSE [code |-> errResp.Error.Code, status |-> errResp.Error.Status,
              message |-> ReturnedMessage(errResp.Error.Message)]

(***************************************************************************)
(* The environment of one acquisition.                                     *)
(***************************************************************************)
urlBase == <<"h","t","t","p","s",":","/","/","i","a","m","/","v","1","/","s","e","r","v","i","c","e","A","c","c","o","u","n","t","s","/","s","a","@","p">>

ImpersonationURLs == {
    urlBase \o sfxGenerateAccessToken,
    urlBase \o sfxGenerateIdToken,
    urlBase \o sfxGenerateAccessToken \o <<"/","x">>,
    urlBase \o <<"\n">> \o sfxGenerateAccessToken,
    <<":">> \o urlBase }

WIFAudiences == {"//iam.googleapis.com/projects/1/providers/p", "https://api.example.com"}

CallerAudiences == {"https://api.example.com", "https://service.example.com"}

Configs ==
    [Audience : WIFAudiences,
     CredentialSource : [File : {"/var/run/secrets/tokens/gcp-token"}],
     ServiceAccountImpersonationURL : ImpersonationURLs]

\* the subject-token file: unreadable, or readable with some content
FileUnreadable == [ok |-> FALSE, data |-> ""]

FileStates == {FileUnreadable} \cup
    { [ok |-> TRUE, data |-> d] : d \in {"k8s-jwt-1", "k8s-jwt-2"} }

AccessTokens == {"ya29.access-1"}

IdentityTokens == {"abc.def.ghi", "eyJ.id-token-2.sig"}

HTTPStatuses == {200, 204, 400, 403, 500}

\* what http.Post / client.Do give back: an error, or a response with a status
\* and a body that decodes (into tok, expires_in) or does not.  body is what
\* io.ReadAll reads of a response that is not a 200: nothing, unless the
\* response is made with UpstreamHTTPBody.
UpstreamError(err) ==
    [kind |-> "error", err |-> err, status |-> 0, decodes |-> FALSE,
     tok |-> "", expires_in |-> 0, body |-> JRaw(<< >>)]

UpstreamHTTP(status, decodes, tok, expires) ==
    [kind |-> "http", err |-> NilError, status |-> status, decodes |-> decodes,
     tok |-> tok, expires_in |-> expires, body |-> JRaw(<< >>)]

UpstreamHTTPBody(status, body) ==
    [kind |-> "http", err |-> NilError, status |-> status, decodes |-> FALSE,
     tok |-> "", expires_in |-> 0, body |-> body]

Upstream(tokens) ==
    { UpstreamError(e) : e \in StdErrors(1) }
    \cup { UpstreamHTTP(s, FALSE, "", 0) : s \in HTTPStatuses }
    \cup { UpstreamHTTP(200, TRUE, t, 3600) : t \in tokens \cup {""} }

STSResponses == Upstream(AccessTokens)

IAMResponses == Upstream(IdentityTokens)

(***************************************************************************)
(* exchangeToken (STS).                                                    *)
(***************************************************************************)
STSRequest(cfg, subjectToken) ==
    [GrantType |-> grantType, Audience |-> cfg.Audience, Scope |-> scope,
     RequestedTokenType |-> requestedTokenType,
     SubjectTokenType |-> subjectTokenType, SubjectToken |-> subjectToken]

\* the category of a failed http.Post, left as the classifier gives it
STSNetworkCategory_NoFallback(err) == CategorizeNetworkError(err)

STSNetworkCategory(err) ==
    LET category == CategorizeNetworkError(err)
    IN  IF category = InternalError THEN STSHTTPError ELSE category

\* the non-200 error without its status code
STSNon200Error_NoStatus(status) ==
    WithOperation(New(STSNon200, "STS returned non-OK status", NilError),
                  "sts_exchange")

STSNon200Error(status) ==
    WithStatusCode(
        WithOperation(New(STSNon200, "STS returned non-OK status", NilError),
                      "sts_exchange"),
        status)

\* the empty-token test left out
STSAccessTokenEmpty_Never(stsResp) == FALSE

STSAccessTokenEmpty(stsResp) == stsResp.tok = ""

\* the fields of the record of a non-200 answer: category, operation, host
\* and status, and the googleErr sanitizer.ExtractGoogleError made of the
\* body
Non200Fields(catErr, operation, host, status, googleErr) ==
    [error_category |-> catErr.Category, operation |-> operation, host |-> host,
     http_status |-> status, google_code |-> googleErr.code,
     google_status |-> googleErr.status, sanitized_message |-> googleErr.message]

\* (accessToken, err) and what the call did: the request sent, the answer
\* received, the log record written.
exchangeToken(ctx, cfg, subjectToken, resp) ==
    LET operation == "sts_exchange"
        requestPayload == STSRequest(cfg, subjectToken)
        post == << [ev |-> "sts_request", url |-> stsUrl, body |-> requestPayload],
                   [ev |-> "sts_response", resp |-> resp] >>
        Fail(catErr, events) == [value |-> "", err |-> catErr, events |-> events]
    IN  IF JSONMarshalFails(requestPayload)
        THEN LET catErr == WithOperation(
                     New(InternalError, "failed to marshal STS request", NilError),
                     operation)
             IN  Fail(catErr,
                      Log(ctx, "sts", LevelError, "STS request marshal error",
                          [error_category |-> catErr.Category,
                           operation |-> operation]))
        ELSE IF resp.kind = "error"
        THEN LET catErr == WithOperation(
                     New(STSNetworkCategory(resp.err), "failed to call STS", resp.err),
                     operation)
             IN  Fail(catErr,
                      post \o Log(ctx, "sts", LevelError, "STS call failed",
                                  [error_category |-> catErr.Category,
                                   operation |-> operation,
                                   host |-> "sts.googleapis.com"]))
        ELSE IF resp.status # 200
        THEN LET catErr == STSNon200Error(resp.status)
             IN  Fail(catErr,
                      post \o Log(ctx, "sts", LevelError, "STS returned error",
                                  Non200Fields(catErr, operation, "sts.googleapis.com",
                                               resp.status,
                                               ExtractGoogleError(resp.body))))
        ELSE IF ~resp.decodes
        THEN LET catErr == WithOperation(
                     New(STSResponseDecodeError, "failed to decode STS response",
                         StdError(FALSE, FALSE, << >>)),
                     operation)
             IN  Fail(catErr,
                      post \o Log(ctx, "sts", LevelError, "STS response decode error",
                                  [error_category |-> catErr.Category,
                                   operation |-> operation]))
        ELSE IF STSAccessTokenEmpty(resp)
        THEN LET catErr == WithOperation(
                     New(STSEmptyAccessToken, "empty access token received from STS",
                         NilError),
                     operation)
             IN  Fail(catErr,
                      post \o Log(ctx, "sts", LevelError, "STS returned empty access token",
                                  [error_category |-> catErr.Category,
                                   operation |-> operation]))
        ELSE [value |-> resp.tok, err |-> NilError,
              events |-> post \o Log(ctx, "sts", LevelInfo, "STS token exchange successful",
                                     [operation |-> operation,
                                      host |-> "sts.googleapis.com",
                                      http_status |-> resp.status,
                                      expires_in |-> resp.expires_in])]

(***************************************************************************)
(* generateIdentityToken (IAM).                                            *)
(***************************************************************************)
IAMCredentialsURL(cfg) ==
    LET iamCredentialsURL == cfg.ServiceAccountImpersonationURL
    IN  IF HasSuffix(iamCredentialsURL, sfxGenerateAccessToken)
        THEN SubSeq(iamCredentialsURL, 1, Len(iamCredentialsURL) - 20)
                 \o sfxGenerateIdToken
        ELSE iamCredentialsURL

\* the payload built with the descriptor's audience
IAMRequest_ConfigAudience(cfg, aud) ==
    [Audience |-> cfg.Audience, IncludeEmail |-> TRUE]

IAMRequest(cfg, aud) == [Audience |-> aud, IncludeEmail |-> TRUE]

\* the category of a failed client.Do, left as the classifier gives it
IAMNetworkCategory_NoFallback(err) == CategorizeNetworkError(err)

IAMNetworkCategory(err) ==
    LET category == CategorizeNetworkError(err)
    IN  IF category = InternalError THEN IAMHTTPError ELSE category

IAMTokenEmpty(iamResp) == iamResp.tok = ""

\* the success record with the token among its fields
IAMSuccessFields_WithToken(resp) ==
    [operation |-> "generate_id_token", host |-> "iamcredentials.googleapis.com",
     http_status |-> resp.status, token |-> resp.tok]

IAMSuccessFields(resp) ==
    [operation |-> "generate_id_token", host |-> "iamcredentials.googleapis.com",
     http_status |-> resp.status]

generateIdentityToken(ctx, cfg, bearer, aud, resp) ==
    LET operation == "generate_id_token"
        iamCredentialsURL == IAMCredentialsURL(cfg)
        requestPayload == IAMRequest(cfg, aud)
        do == << [ev |-> "iam_request", url |-> iamCredentialsURL,
                  body |-> requestPayload,
                  authorization |-> [scheme |-> "Bearer", token |-> bearer]],
                 [ev |-> "iam_response", resp |-> resp] >>
        Fail(catErr, events) == [value |-> "", err |-> catErr, events |-> events]
    IN  IF JSONMarshalFails(requestPayload)
        THEN LET catErr == WithOperation(
                     New(InternalError, "failed to marshal IAM request", NilError),
                     operation)
             IN  Fail(catErr,
                      Log(ctx, "iam", LevelError, "IAM request marshal error",
                          [error_category |-> catErr.Category,
                           operation |-> operation]))
        ELSE IF NewRequestFails(iamCredentialsURL)
        THEN LET catErr == WithOperation(
                     New(InternalError, "failed to create IAM request",
                         StdError(FALSE, FALSE, << >>)),
                     operation)
             IN  Fail(catErr,
                      Log(ctx, "iam", LevelError, "IAM request creation error",
                          [error_category |-> catErr.Category,
                           operation |-> operation]))
        ELSE IF resp.kind = "error"
        THEN LET catErr == WithOperation(
                     New(IAMNetworkCategory(resp.err), "failed to call IAM", resp.err),
                     operation)
             IN  Fail(catErr,
                      do \o Log(ctx, "iam", LevelError, "IAM call failed",
                                [error_category |-> catErr.Category,
                                 operation |-> operation,
                                 host |-> "iamcredentials.googleapis.com"]))
        ELSE IF resp.status # 200
        THEN LET catErr == WithStatusCode(
                     WithOperation(
                         New(IAMNon200, "IAM returned non-OK status", NilError),
                         operation),
                     resp.status)
             IN  Fail(catErr,
                      do \o Log(ctx, "iam", LevelError, "IAM returned error",
                                Non200Fields(catErr, operation,
                                             "iamcredentials.googleapis.com",
                                             resp.status,
                                             ExtractGoogleError(resp.body))))
        ELSE IF ~resp.decodes
        THEN LET catErr == WithOperation(
                     New(IAMResponseDecodeError, "failed to decode IAM response",
                         StdError(FALSE, FALSE, << >>)),
                     operation)
             IN  Fail(catErr,
                      do \o Log(ctx, "iam", LevelError, "IAM response decode error",
                                [error_category |-> catErr.Category,
                                 operation |-> operation]))
        ELSE IF IAMTokenEmpty(resp)
        THEN LET catErr == WithOperation(
                     New(IAMEmptyToken, "empty identity token received from IAM",
                         NilError),
                     operation)
             IN  Fail(catErr,
                      do \o Log(ctx, "iam", LevelError, "IAM returned empty token",
                                [error_category |-> catErr.Category,
                                 operation |-> operation]))
        ELSE [value |-> resp.tok, err |-> NilError,
              events |-> do \o Log(ctx, "iam", LevelInfo, "IAM identity token generated",
                                   IAMSuccessFields(resp))]

(***************************************************************************)
(* What main finds at startup, and the /token request around an            *)
(* acquisition.                                                            *)
(***************************************************************************)
\* googleApplicationCredentials == nil
NoConfig == [kind |-> "nil"]

UsesImpersonation(g) == g.ServiceAccountImpersonationURL # << >>

\* the file GOOGLE_APPLICATION_CREDENTIALS names: absent, not to be examined
\* (os.Stat fails otherwise than with "not exist"), not to be read, no JSON,
\* or JSON that decodes into content
CredFileMissing == [stat |-> "missing"]

CredFileStatError == [stat |-> "error"]

CredFileUnreadable == [stat |-> "ok", read |-> FALSE]

CredFileMalformed == [stat |-> "ok", read |-> TRUE, json |-> FALSE]

CredFileWith(content) ==
    [stat |-> "ok", read |-> TRUE, json |-> TRUE, content |-> content]

\* a service-account key: no impersonation URL, no subject-token file
KeyFileConfig ==
    [Audience |-> "", CredentialSource |-> [File |-> ""],
     ServiceAccountImpersonationURL |-> << >>]

credentialsPath == "/etc/gcp/credentials.json"

\* a workload-identity environment off GCP without an allow-list
ImpersonationEnv ==
    [credentialsFile |-> credentialsPath, onGCE |-> FALSE, Audiences |-> << >>]

Listening(stat) == [pc |-> "listening", stat |-> stat]

\* a POST to /token as the middleware hands it to the handler
PostRequest(id) ==
    [header |-> id, id |-> id, respHeader |-> id, path |-> "/token",
     method |-> "POST", formOK |-> TRUE,
     ctx |-> WithRoute(WithRequestID(Background, id), "/token")]

NoPrev == [served |-> FALSE]

\* what handleToken answers when GetIdentityToken failed with err: the
\* text of http.Error and the request ID in its %s
FailureBody_WithCategory(err, id) ==
    <<"Failed to get identity token. request_id=", id, GetCategory(err)>>

FailureBody(err, id) == <<"Failed to get identity token. request_id=", id>>

\* what os.ReadFile gives GetIdentityToken
SubjectTokenRead_Earlier(file) == IF file.ok THEN "k8s-jwt-1" ELSE ""

SubjectTokenRead(file) == file.data

(***************************************************************************)
(* GetIdentityToken and the part of handleToken that calls it.             *)
(***************************************************************************)
NoResult == [identityToken |-> "", err |-> NilError]

\* SpecFunctions at rest: no function chosen, nothing returned
NoArg == [fn |-> "none"]

NoRes == [done |-> FALSE]

NoResponse == [status |-> 0, body |-> ""]

\* the read failure reported under the generic category
TokenFileReadErr_Internal(cause) ==
    New(InternalError, "failed to read Kubernetes token file", cause)

TokenFileReadErr(cause) ==
    New(TokenFileReadError, "failed to read Kubernetes token file", cause)

\* the error of exchangeToken not looked at
ExchangeFailed_Ignored(err) == FALSE

\* `if err != nil` after exchangeToken
ExchangeFailed(err) == err # NilError

\* `if err != nil` after generateIdentityToken
GenerateFailed(err) == err # NilError

\* the error wrapped again, as fmt.Errorf("...: %v", err) does
Propagate_Rewrapped(err) == StdError(FALSE, FALSE, << >>)

\* `return "", err`
Propagate(err) == err

Call(aud) ==
    /\ pc \in {"idle", "responded"}
    /\ nAcq < MaxAcq
    /\ pc' = "ReadSubjectToken"
    /\ audience' = aud
    /\ jwt' = ""
    /\ accessToken' = ""
    /\ result' = NoResult
    /\ hist' = << >>
    /\ response' = NoResponse
    /\ nAcq' = nAcq + 1
    /\ rw' = NewResponseWriter
    /\ UNCHANGED <<config, logLevel, tokenFile, fnVars, srvVars, conVars>>

ReadSubjectToken ==
    /\ pc = "ReadSubjectToken"
    /\ LET path == config.CredentialSource.File
           read == [ev |-> "read_file", path |-> path, ok |-> tokenFile.ok,
                    data |-> tokenFile.data]
           catErr == TokenFileReadErr(StdError(FALSE, FALSE, << >>))
       IN  IF tokenFile.ok
           THEN /\ jwt' = SubjectTokenRead(tokenFile)
                /\ hist' = Append(hist, read)
                /\ pc' = "ExchangeSTS"
                /\ UNCHANGED result
           ELSE /\ hist' = Append(hist, read)
                            \o Log(req.ctx, "token", LevelError, "token file read error",
                                   [error_category |-> catErr.Category,
                                    file_path |-> path])
                /\ result' = [identityToken |-> "", err |-> catErr]
                /\ pc' = "returned"
                /\ UNCHANGED jwt
    /\ UNCHANGED <<config, logLevel, tokenFile, audience, accessToken, response,
                   nAcq, fnVars, srvVars, rw, conVars>>

ExchangeSTS(resp) ==
    /\ pc = "ExchangeSTS"
    /\ LET r == exchangeToken(req.ctx, config, jwt, resp)
       IN  /\ hist' = (Append(hist, [ev |-> "call", fn |-> "exchangeToken"]) \o r.events)
                      \o << [ev |-> "return", fn |-> "exchangeToken",
                             value |-> r.value, err |-> r.err] >>
           /\ IF ExchangeFailed(r.err)
              THEN /\ result' = [identityToken |-> "", err |-> Propagate(r.err)]
                   /\ pc' = "returned"
                   /\ UNCHANGED accessToken
              ELSE /\ accessToken' = r.value
                   /\ pc' = "GenerateIAMToken"
                   /\ UNCHANGED result
    /\ UNCHANGED <<config, logLevel, tokenFile, audience, jwt, response, nAcq,
                   fnVars, srvVars, rw, conVars>>

GenerateIAMToken(resp) ==
    /\ pc = "GenerateIAMToken"
    /\ LET r == generateIdentityToken(req.ctx, config, accessToken, audience, resp)
           done == (Append(hist, [ev |-> "call", fn |-> "generateIdentityToken"])
                        \o r.events)
                   \o << [ev |-> "return", fn |-> "generateIdentityToken",
                          value |-> r.value, err |-> r.err] >>
       IN  IF GenerateFailed(r.err)
           THEN /\ hist' = done
                /\ result' = [identityToken |-> "", err |-> Propagate(r.err)]
           ELSE /\ hist' = done \o Log(req.ctx, "token", LevelDebug,
                                       "identity token generated successfully",
                                       [audience |-> audience])
                /\ result' = [identityToken |-> r.value, err |-> NilError]
    /\ pc' = "returned"
    /\ UNCHANGED <<config, logLevel, tokenFile, audience, jwt, accessToken,
                   response, nAcq, fnVars, srvVars, rw, conVars>>

\* handleToken after GetIdentityToken returned.  The body of an error is the
\* format text and the request ID that fills its %s.
HandleResult ==
    /\ pc = "returned"
    /\ IF result.err # NilError
       THEN /\ hist' = hist \o Log(req.ctx, "token", LevelError, "failed to get identity token",
                                   [error_category |-> GetCategory(result.err),
                                    audience |-> audience,
                                    uses_impersonation |-> TRUE])
            /\ response' = [status |-> 500,
                            body |-> FailureBody(result.err, GetRequestID(req.ctx))]
            /\ rw' = HTTPError(rw, 500)
       ELSE /\ hist' = hist
            /\ response' = [status |-> 200, body |-> result.identityToken]
            /\ rw' = Write(rw)
    /\ pc' = "responded"
    /\ UNCHANGED <<config, logLevel, tokenFile, audience, jwt, accessToken, result,
                   nAcq, fnVars, srvVars, conVars>>

\* the environment rewrites, removes or restores the subject-token file
RotateFile ==
    /\ tokenFile' \in FileStates \ {tokenFile}
    /\ UNCHANGED <<config, logLevel, pc, audience, jwt, accessToken, result, hist,
                   response, nAcq, fnVars, srvVars, rw, conVars>>

Init ==
    /\ config \in Configs
    /\ logLevel \in Levels
    /\ tokenFile \in FileStates
    /\ pc = "idle"
    /\ audience = ""
    /\ jwt = ""
    /\ accessToken = ""
    /\ result = NoResult
    /\ hist = << >>
    /\ response = NoResponse
    /\ nAcq = 0
    /\ cErr = NilError
    /\ cCat = ""
    /\ fArg = NoArg
    /\ fRes = NoRes
    /\ env = ImpersonationEnv
    /\ credFile = CredFileWith(config)
    /\ main = Listening("ok")
    /\ req = PostRequest("req-1")
    /\ prev = NoPrev
    /\ rw = NewResponseWriter
    /\ gor = << >>
    /\ lg = << >>
    /\ mu = << >>

Next ==
    \/ \E aud \in CallerAudiences : Call(aud)
    \/ ReadSubjectToken
    \/ \E resp \in STSResponses : ExchangeSTS(resp)
    \/ \E resp \in IAMResponses : GenerateIAMToken(resp)
    \/ HandleResult
    \/ RotateFile

Spec == Init /\ [][Next]_vars

(***************************************************************************)
(* SpecClassify: CategorizeNetworkError on its own.                        *)
(***************************************************************************)
ClassifierInputs == {NilError} \cup StdErrors(MaxMsgFrags)

Classify ==
    /\ cCat = ""
    /\ cCat' = CategorizeNetworkError(cErr)
    /\ UNCHANGED <<acqVars, cErr, fArg, fRes, srvVars, rw, conVars>>

InitClassify ==
    /\ config = CHOOSE c \in Configs : TRUE
    /\ logLevel = LevelInfo
    /\ tokenFile = FileUnreadable
    /\ pc = "idle"
    /\ audience = ""
    /\ jwt = ""
    /\ accessToken = ""
    /\ result = NoResult
    /\ hist = << >>
    /\ response = NoResponse
    /\ nAcq = 0
    /\ cErr \in ClassifierInputs
    /\ cCat = ""
    /\ fArg = NoArg
    /\ fRes = NoRes
    /\ env = ImpersonationEnv
    /\ credFile = CredFileWith(config)
    /\ main = Listening("ok")
    /\ req = PostRequest("req-1")
    /\ prev = NoPrev
    /\ rw = NewResponseWriter
    /\ gor = << >>
    /\ lg = << >>
    /\ mu = << >>

NextClassify == Classify

SpecClassify == InitClassify /\ [][NextClassify]_vars

(***************************************************************************)
(* Reading the history of an acquisition.                                  *)
(***************************************************************************)
EvIdx(name) == { i \in DOMAIN hist : hist[i].ev = name }

CallIdx(fn) == { i \in DOMAIN hist : hist[i].ev = "call" /\ hist[i].fn = fn }

ReturnIdx(fn) == { i \in DOMAIN hist : hist[i].ev = "return" /\ hist[i].fn = fn }

Returned == pc \in {"returned", "responded", "completed"}

\* a step of GetIdentityToken ended in failure at position i
StepFailedAt(i) ==
    \/ (hist[i].ev = "read_file" /\ ~hist[i].ok)
    \/ (hist[i].ev = "return" /\ hist[i].err # NilError)

\* position i is the start of a step or a request to an endpoint
StepAt(i) == hist[i].ev \in {"read_file", "call", "sts_request", "iam_request"}

\* the texts of a log record
NonTextFields == {"http_status", "expires_in", "uses_impersonation"}

LogTexts(rec) ==
    {rec.component, rec.message}
    \cup { rec.fields[k] : k \in (DOMAIN rec.fields) \ NonTextFields }

(***************************************************************************)
(* Claims.                                                                 *)
(***************************************************************************)

\* C1: GetIdentityToken reads the subject-token file, then calls exchangeToken,
\* then generateIdentityToken, each at most once; STS is called only after a
\* successful read, IAM only after exchangeToken returned an access token; once
\* a step has failed no later step is performed and the call ends in failure.
C1_StrictOrder ==
    /\ \A name \in {"read_file", "sts_request", "iam_request"} :
           Cardinality(EvIdx(name)) <= 1
    /\ \A fn \in {"exchangeToken", "generateIdentityToken"} :
           Cardinality(CallIdx(fn)) <= 1
    /\ \A i \in CallIdx("exchangeToken") \cup EvIdx("sts_request") :
           \E j \in 1..(i - 1) : hist[j].ev = "read_file" /\ hist[j].ok
    /\ \A i \in CallIdx("generateIdentityToken") \cup EvIdx("iam_request") :
           \E j \in ReturnIdx("exchangeToken") :
               /\ j < i
               /\ hist[j].err = NilError
               /\ hist[j].value # ""
               /\ \E k \in EvIdx("sts_request") : k < j
    /\ \A i \in DOMAIN hist :
           StepFailedAt(i) =>
               /\ \A k \in (i + 1)..Len(hist) : ~StepAt(k)
               /\ Returned
               /\ result.err # NilError
    /\ (Returned /\ result.err = NilError) =>
           /\ \E i \in EvIdx("read_file") : hist[i].ok
           /\ \E i \in ReturnIdx("exchangeToken") : hist[i].err = NilError
           /\ \E i \in ReturnIdx("generateIdentityToken") : hist[i].err = NilError

\* the STS exchange failed after a successful read: the call has ended in
\* failure and generateIdentityToken was not called
C1_Witness ==
    /\ pc = "returned"
    /\ result.err # NilError
    /\ \E i \in EvIdx("read_file") : hist[i].ok
    /\ \E i \in ReturnIdx("exchangeToken") : hist[i].err # NilError
    /\ CallIdx("generateIdentityToken") = {}

\* C2: the audience of the STS request is the descriptor's audience W, the
\* audience of the IAM request is the caller's audience A; when A differs from
\* W, A is in no field of the STS request and W is not the IAM audience.
C2_AudienceSeparation ==
    /\ \A i \in EvIdx("sts_request") :
           /\ hist[i].body.Audience = config.Audience
           /\ audience # config.Audience =>
                  \A f \in DOMAIN hist[i].body : hist[i].body[f] # audience
    /\ \A i \in EvIdx("iam_request") :
           /\ hist[i].body.Audience = audience
           /\ audience # config.Audience =>
                  hist[i].body.Audience # config.Audience

\* both requests were sent for a caller audience that is not the descriptor's
C2_Witness ==
    /\ audience # config.Audience
    /\ EvIdx("sts_request") # {}
    /\ EvIdx("iam_request") # {}

\* C3: an error returned by exchangeToken or generateIdentityToken is one
\* CategorizedError (its cause is not a CategorizedError), GetIdentityToken
\* returns that very error, and the category, operation and status code read
\* from it by GetCategory, GetOperation and GetStatusCode - and the category
\* in the handler's log record - are those set where the failure occurred.
C3_ErrorPropagatedUnchanged ==
    \A fn \in {"exchangeToken", "generateIdentityToken"} :
        \A i \in ReturnIdx(fn) :
            hist[i].err # NilError =>
                /\ hist[i].err.kind = "categorized"
                /\ hist[i].err.Err.kind # "categorized"
                /\ \A k \in EvIdx("log") :
                       (k < i /\ hist[k].severity = LevelError) =>
                           hist[k].fields.error_category = hist[i].err.Category
                /\ Returned =>
                       /\ result.err = hist[i].err
                       /\ GetCategory(result.err) = hist[i].err.Category
                       /\ GetOperation(result.err) = hist[i].err.Operation
                       /\ GetStatusCode(result.err) = hist[i].err.StatusCode
                /\ pc = "responded" =>
                       /\ hist[Len(hist)].ev = "log"
                       /\ hist[Len(hist)].message = "failed to get identity token"
                       /\ hist[Len(hist)].fields.error_category = hist[i].err.Category

\* the IAM call failed with 403 and the handler has answered
C3_Witness ==
    /\ pc = "responded"
    /\ \E i \in ReturnIdx("generateIdentityToken") :
           /\ hist[i].err # NilError
           /\ hist[i].err.Category = IAMNon200
           /\ hist[i].err.StatusCode = 403
           /\ hist[i].err.Operation = "generate_id_token"
    /\ response.status = 500

\* C4: when the subject-token file cannot be read, GetIdentityToken fails with
\* TOKEN_FILE_READ_ERROR and neither STS nor IAM is called.
C4_UnreadableFile ==
    \A i \in EvIdx("read_file") :
        ~hist[i].ok =>
            /\ Returned
            /\ result.identityToken = ""
            /\ result.err # NilError
            /\ GetCategory(result.err) = TokenFileReadError
            /\ EvIdx("sts_request") = {}
            /\ EvIdx("iam_request") = {}
            /\ EvIdx("call") = {}

\* the read failed and the call has returned
C4_Witness ==
    /\ pc = "returned"
    /\ \E i \in EvIdx("read_file") : ~hist[i].ok
    /\ result.err # NilError

\* C5: when STS answers with an HTTP status other than 200, the acquisition
\* fails with STS_NON_200 carrying that status, and IAM is never called.
C5_STSNon200 ==
    \A i \in EvIdx("sts_response") :
        (hist[i].resp.kind = "http" /\ hist[i].resp.status # 200) =>
            /\ Returned
            /\ result.err # NilError
            /\ GetCategory(result.err) = STSNon200
            /\ GetStatusCode(result.err) = hist[i].resp.status
            /\ EvIdx("iam_request") = {}
            /\ CallIdx("generateIdentityToken") = {}

\* STS answered 400 and the call has returned
C5_Witness ==
    /\ pc = "returned"
    /\ \E i \in EvIdx("sts_response") :
           hist[i].resp.kind = "http" /\ hist[i].resp.status = 400
    /\ GetStatusCode(result.err) = 400

\* C6: a 200 answer with an empty token is a failure: an empty access_token
\* from STS gives STS_EMPTY_ACCESS_TOKEN and IAM is never sent an empty bearer
\* token; an empty token from IAM gives IAM_EMPTY_TOKEN and a successful
\* GetIdentityToken never returns the empty string.
C6_EmptyTokenIsFailure ==
    /\ \A i \in EvIdx("sts_response") :
           (/\ hist[i].resp.kind = "http"
            /\ hist[i].resp.status = 200
            /\ hist[i].resp.decodes
            /\ hist[i].resp.tok = "") =>
               /\ Returned
               /\ GetCategory(result.err) = STSEmptyAccessToken
               /\ result.err # NilError
               /\ EvIdx("iam_request") = {}
    /\ \A i \in EvIdx("iam_request") : hist[i].authorization.token # ""
    /\ \A i \in EvIdx("iam_response") :
           (/\ hist[i].resp.kind = "http"
            /\ hist[i].resp.status = 200
            /\ hist[i].resp.decodes
            /\ hist[i].resp.tok = "") =>
               /\ Returned
               /\ result.err # NilError
               /\ GetCategory(result.err) = IAMEmptyToken
    /\ (Returned /\ result.err = NilError) => result.identityToken # ""
    /\ (pc = "responded" /\ response.status = 200) => response.body # ""

\* IAM answered 200 with an empty token after a successful exchange
C6_Witness ==
    /\ pc = "returned"
    /\ \E i \in EvIdx("iam_response") :
           /\ hist[i].resp.kind = "http"
           /\ hist[i].resp.status = 200
           /\ hist[i].resp.decodes
           /\ hist[i].resp.tok = ""
    /\ GetCategory(result.err) = IAMEmptyToken

\* C7: when the read, the STS exchange and the IAM call succeed,
\* GetIdentityToken returns the token of the IAM 200 answer, and no log record
\* of the acquisition holds that token.
C7_TokenReturnedNotLogged ==
    (/\ Returned
     /\ \E i \in EvIdx("read_file") : hist[i].ok
     /\ \E i \in ReturnIdx("exchangeToken") : hist[i].err = NilError
     /\ \E i \in ReturnIdx("generateIdentityToken") : hist[i].err = NilError) =>
        /\ result.err = NilError
        /\ \E i \in EvIdx("iam_response") :
               /\ hist[i].resp.kind = "http"
               /\ hist[i].resp.status = 200
               /\ hist[i].resp.tok = result.identityToken
        /\ \A k \in EvIdx("log") : result.identityToken \notin LogTexts(hist[k])

\* "abc.def.ghi" was returned with the logger at debug level: the records of
\* the sts, iam and token loggers were all written
C7_Witness ==
    /\ pc = "returned"
    /\ result.err = NilError
    /\ result.identityToken = "abc.def.ghi"
    /\ logLevel = LevelDebug
    /\ { hist[k].component : k \in EvIdx("log") } = {"sts", "iam", "token"}

\* C8: a failure of exchangeToken has one of the six STS categories, and a
\* network failure the classifier calls INTERNAL_ERROR is reported as
\* STS_HTTP_ERROR.
STSFailureCategories ==
    {STSHTTPError, NetworkDNSError, NetworkTimeout, STSNon200,
     STSResponseDecodeError, STSEmptyAccessToken}

C8_STSCategories ==
    \A i \in ReturnIdx("exchangeToken") :
        hist[i].err # NilError =>
            /\ GetCategory(hist[i].err) \in STSFailureCategories
            /\ GetCategory(hist[i].err) # InternalError
            /\ \A k \in EvIdx("sts_response") :
                   (/\ hist[k].resp.kind = "error"
                    /\ ~hist[k].resp.err.dns
                    /\ ~hist[k].resp.err.timeout
                    /\ hist[k].resp.err.msg \in
                           { << >>,
                             <<"c","o","n","n","e","c","t","i","o","n"," ","r","e","f","u","s","e","d"," ">>,
                             <<"s","o","m","e","t","h","i","n","g"," ","w","e","n","t"," ","w","r","o","n","g">> }) =>
                       GetCategory(hist[i].err) = STSHTTPError

\* http.Post failed with "connection refused", which the classifier does not
\* recognise
C8_Witness ==
    /\ \E k \in EvIdx("sts_response") :
           /\ hist[k].resp.kind = "error"
           /\ hist[k].resp.err =
                  StdError(FALSE, FALSE,
                           <<"c","o","n","n","e","c","t","i","o","n"," ","r","e","f","u","s","e","d"," ">>)
    /\ \E i \in ReturnIdx("exchangeToken") : GetCategory(hist[i].err) = STSHTTPError

\* C9, as stated: a failure of generateIdentityToken has one of the six IAM
\* categories for every impersonation URL, a malformed one included; it is
\* never INTERNAL_ERROR.
IAMFailureCategories ==
    {IAMHTTPError, NetworkDNSError, NetworkTimeout, IAMNon200,
     IAMResponseDecodeError, IAMEmptyToken}

C9_Original ==
    \A i \in ReturnIdx("generateIdentityToken") :
        hist[i].err # NilError =>
            GetCategory(hist[i].err) \in IAMFailureCategories

\* C9, amended: a failure of generateIdentityToken has one of the six IAM
\* categories, except that it is INTERNAL_ERROR (operation generate_id_token,
\* no request sent to IAM) exactly when http.NewRequest rejects the rewritten
\* impersonation URL.
C9_IAMCategories ==
    \A i \in ReturnIdx("generateIdentityToken") :
        LET malformed ==
                \/ \E j \in DOMAIN config.ServiceAccountImpersonationURL :
                       config.ServiceAccountImpersonationURL[j] = "\n"
                \/ config.ServiceAccountImpersonationURL[1] = ":"
        IN  /\ malformed =>
                /\ hist[i].err # NilError
                /\ GetCategory(hist[i].err) = InternalError
                /\ GetOperation(hist[i].err) = "generate_id_token"
                /\ EvIdx("iam_request") = {}
            /\ (~malformed /\ hist[i].err # NilError) =>
                /\ GetCategory(hist[i].err) \in IAMFailureCategories
                /\ EvIdx("iam_request") # {}

\* generateIdentityToken returned INTERNAL_ERROR for a URL with a control
\* character in it
C9_Witness ==
    /\ \E j \in DOMAIN config.ServiceAccountImpersonationURL :
           config.ServiceAccountImpersonationURL[j] = "\n"
    /\ \E i \in ReturnIdx("generateIdentityToken") :
           GetCategory(hist[i].err) = InternalError
    /\ Returned
    /\ GetCategory(result.err) = InternalError

\* C10: CategorizeNetworkError returns the first match of: nil ->
\* INTERNAL_ERROR; typed DNS error -> NETWORK_DNS_ERROR; typed timeout ->
\* NETWORK_TIMEOUT; message with "dial", "dns" or "lookup" in any case ->
\* NETWORK_DNS_ERROR; message with "timeout" or "deadline" -> NETWORK_TIMEOUT;
\* otherwise INTERNAL_ERROR.
SameLetter(c, lower) ==
    \/ c = lower
    \/ \E i \in DOMAIN LowerChars : LowerChars[i] = lower /\ UpperChars[i] = c

Mentions(msg, word) ==
    \E i \in 0..(Len(msg) - Len(word)) :
        \A j \in 1..Len(word) : SameLetter(msg[i + j], word[j])

MentionsDNS(msg) ==
    Mentions(msg, kwDial) \/ Mentions(msg, kwDns) \/ Mentions(msg, kwLookup)

MentionsTimeout(msg) == Mentions(msg, kwTimeout) \/ Mentions(msg, kwDeadline)

C10_ClassifierOrder ==
    cCat # "" =>
        /\ cErr = NilError => cCat = InternalError
        /\ cErr # NilError =>
            /\ cErr.dns => cCat = NetworkDNSError
            /\ (~cErr.dns /\ cErr.timeout) => cCat = NetworkTimeout
            /\ (~cErr.dns /\ ~cErr.timeout) =>
                /\ MentionsDNS(cErr.msg) => cCat = NetworkDNSError
                /\ (~MentionsDNS(cErr.msg) /\ MentionsTimeout(cErr.msg)) =>
                       cCat = NetworkTimeout
                /\ (~MentionsDNS(cErr.msg) /\ ~MentionsTimeout(cErr.msg)) =>
                       cCat = InternalError
                /\ cErr.msg = <<"c","o","n","t","e","x","t"," ","d","e","a","d","l","i","n","e"," ","e","x","c","e","e","d","e","d">> =>
                       cCat = NetworkTimeout
                /\ cErr.msg = <<"s","o","m","e","t","h","i","n","g"," ","w","e","n","t"," ","w","r","o","n","g">> =>
                       cCat = InternalError

\* an untyped error whose message names a timeout first and a lookup second
\* was classified as a DNS error
C10_Witness ==
    /\ cErr # NilError
    /\ ~cErr.dns
    /\ ~cErr.timeout
    /\ cErr.msg = <<"i","/","o"," ","T","i","m","e","o","u","t"," ">>
                  \o <<"L","o","o","k","u","p"," ">>
    /\ cCat = NetworkDNSError

(***************************************************************************)
(* SpecFunctions: one function of the repository applied to one argument,  *)
(* drawn from a bounded set.                                               *)
(***************************************************************************)
\* segments joined by dots in an argument of SanitizeString, at most
MaxSegments == 3

Rep(c, n) == [i \in 1..n |-> c]

\* segments of exactly, one more than and one less than the minimum length,
\* with "-" at either end
SampleSegments == {
    Rep("a", jwtMinSegment),
    <<"-">> \o Rep("b", jwtMinSegment - 1),
    Rep("c", jwtMinSegment - 1) \o <<"-">>,
    Rep("d", jwtMinSegment) \o <<"-">>,
    Rep("e", jwtMinSegment - 1) }

RECURSIVE Dotted(_)
Dotted(n) ==
    IF n = 1
    THEN SampleSegments
    ELSE { t \o <<".">> \o g : t \in Dotted(n - 1), g \in SampleSegments }

\* the inputs of TestSanitizeString and the tokens they hold
TestTexts == {
    <<"s","i","m","p","l","e"," ","e","r","r","o","r"," ","m","e","s","s","a","g","e">>,
    <<"I","n","v","a","l","i","d"," ","t","o","k","e","n",":"," ","e","y","J","h","b","G","c","i","O","i","J","S","U","z","I","1","N","i","J","9",".","e","y","J","z","d","W","I","i","O","i","I","x","M","j","M","0","N","T","Y","3","O","D","k","w","I","n","0",".","s","i","g","n","a","t","u","r","e">>,
    <<"T","o","k","e","n","1",":"," ","a","b","c",".","d","e","f",".","g","h","i"," ","T","o","k","e","n","2",":"," ","x","y","z",".","u","v","w",".","r","s","t">>,
    <<"a","p","i",".","e","x","a","m","p","l","e",".","c","o","m"," ","r","e","t","u","r","n","e","d"," ","e","r","r","o","r">>,
    <<"a","b","c",".","d","e","f",".","g","h","i">>,
    <<"x","y","z",".","u","v","w",".","r","s","t">>,
    <<"e","y","J","h","b","G",".","e","y","J","z","d","W","I","i",".","s","i","g","1","2","3">>,
    <<"a","p","i",".","e","x","a","m","p","l","e",".","c","o","m">> }

SampleTexts ==
    { pre \o t \o post :
        pre \in { << >>, <<"I","n","v","a","l","i","d"," ","t","o","k","e","n",":"," ">> },
        t \in UNION { Dotted(n) : n \in 1..MaxSegments },
        post \in { << >>, <<" ","r","e","j","e","c","t","e","d">> } }
    \cup TestTexts

SanitizeStringArgs == [fn : {"SanitizeString"}, s : SampleTexts]

ApplySanitizeString ==
    /\ fArg.fn = "SanitizeString"
    /\ ~fRes.done
    /\ fRes' = [done |-> TRUE, out |-> SanitizeString(fArg.s)]
    /\ UNCHANGED <<acqVars, cErr, cCat, fArg, srvVars, rw, conVars>>

\* the text holds, at dots d1 and d2, three segments of 20 or more segment
\* characters
AllJWTChars(s, from, to) == \A k \in from..to : k \in DOMAIN s /\ s[k] \in JWTChars

HasJWTShape(s) ==
    \E d1, d2 \in DOMAIN s :
        /\ s[d1] = "."
        /\ s[d2] = "."
        /\ d2 - d1 - 1 >= 20
        /\ AllJWTChars(s, d1 + 1, d2 - 1)
        /\ AllJWTChars(s, d1 - 20, d1 - 1)
        /\ AllJWTChars(s, d2 + 1, d2 + 20)

\* C12: after SanitizeString no substring of the result consists of three
\* dot-separated segments of at least 20 characters of [A-Za-z0-9_-] each.
\* A text holds such a substring exactly when two of its dots have 20 or more
\* segment characters and nothing else between them, 20 before the first and
\* 20 after the second.
C12_NoJWTShapeRemains ==
    (fArg.fn = "SanitizeString" /\ fRes.done) => ~HasJWTShape(fRes.out)

\* the documents SanitizeJSON is applied to: values nested at most MaxDepth
\* deep in objects and arrays
MaxDepth == 2

Secret == <<"s","3","c","r","3","t">>

SampleJWT == (Rep("a", jwtMinSegment) \o <<".">> \o Rep("b", jwtMinSegment))
                 \o <<".">> \o Rep("c", jwtMinSegment)

SensitiveSampleKeys == { <<"I","D","_","T","o","k","e","n">>, <<"t","o","k","e","n">> }

PlainSampleKeys == { <<"t","o","k","e","n","s">>, <<"e","x","p","i","r","e","s","_","i","n">> }

Leaves == { JStr(Secret), JNum(3600), JStr(SampleJWT) }

RECURSIVE Docs(_)
Docs(n) ==
    IF n = 0
    THEN Leaves
    ELSE LET sub == Docs(n - 1)
         IN  sub
             \cup { JObj(<< JField(k, v) >>) :
                        k \in SensitiveSampleKeys \cup PlainSampleKeys, v \in sub }
             \cup { JObj(<< JField(k, v), JField(<<"e","x","p","i","r","e","s","_","i","n">>, JNum(3600)) >>) :
                        k \in SensitiveSampleKeys, v \in sub }
             \cup { JArr(<< v >>) : v \in sub }

SanitizeJSONArgs ==
    [fn : {"SanitizeJSON"},
     data : Docs(MaxDepth) \cup { JNull, JRaw(<< >>), JRaw(<<"u","p","s","t","r","e","a","m"," ","d","o","w","n">>) }]

ApplySanitizeJSON ==
    /\ fArg.fn = "SanitizeJSON"
    /\ ~fRes.done
    /\ fRes' = [done |-> TRUE, out |-> SanitizeJSON(fArg.data)]
    /\ UNCHANGED <<acqVars, cErr, cCat, fArg, srvVars, rw, conVars>>

\* the keys SanitizeJSON is to redact, in any case
NamedSensitive(key) ==
    \E name \in { <<"a","c","c","e","s","s","_","t","o","k","e","n">>, <<"i","d","_","t","o","k","e","n">>, <<"t","o","k","e","n">>,
                  <<"s","u","b","j","e","c","t","_","t","o","k","e","n">>, <<"a","u","t","h","o","r","i","z","a","t","i","o","n">> } :
        /\ Len(key) = Len(name)
        /\ \A i \in DOMAIN key : SameLetter(key[i], name[i])

\* the strings inside a value
RECURSIVE StringsIn(_)
StringsIn(v) ==
    CASE v.t = "string" -> { v.s }
      [] v.t = "array" -> UNION { StringsIn(v.items[i]) : i \in DOMAIN v.items }
      [] v.t = "object" -> UNION { StringsIn(v.fields[i].v) : i \in DOMAIN v.fields }
      [] OTHER -> {}

\* the strings held by the sensitive fields of a value
RECURSIVE SensitiveStrings(_)
SensitiveStrings(v) ==
    CASE v.t = "array" -> UNION { SensitiveStrings(v.items[i]) : i \in DOMAIN v.items }
      [] v.t = "object" ->
             UNION { IF NamedSensitive(v.fields[i].k)
                     THEN StringsIn(v.fields[i].v)
                     ELSE SensitiveStrings(v.fields[i].v) : i \in DOMAIN v.fields }
      [] OTHER -> {}

\* the fields that are not sensitive, not inside a sensitive one, and hold a
\* scalar
RECURSIVE PlainFields(_)
PlainFields(v) ==
    CASE v.t = "array" -> UNION { PlainFields(v.items[i]) : i \in DOMAIN v.items }
      [] v.t = "object" ->
             UNION { IF NamedSensitive(v.fields[i].k)
                     THEN {}
                     ELSE IF v.fields[i].v.t \in {"array", "object"}
                     THEN PlainFields(v.fields[i].v)
                     ELSE { v.fields[i] } : i \in DOMAIN v.fields }
      [] OTHER -> {}

C11_NoSensitiveValue ==
    (fArg.fn = "SanitizeJSON" /\ fRes.done /\ fArg.data.t # "raw") =>
        \A s \in SensitiveStrings(fArg.data) : ~Contains(fRes.out, s)

C11_SiblingsKept ==
    (fArg.fn = "SanitizeJSON" /\ fRes.done /\ fArg.data.t # "raw") =>
        \A f \in PlainFields(fArg.data) :
            Contains(fRes.out, <<"\"">> \o f.k \o <<"\"", ":">> \o JSONText(f.v))

\* C11: for every JSON input, object, array or scalar, the output of
\* SanitizeJSON contains none of the original values of the fields whose key
\* is, in any case, access_token, id_token, token, subject_token or
\* authorization, at any depth inside objects and arrays, and every other
\* field keeps its key and its value.
C11_SanitizeJSON == C11_NoSensitiveValue /\ C11_SiblingsKept

\* the bodies ExtractGoogleError is applied to
Optional(k, vals) == { << >> } \cup { << JField(k, v) >> : v \in vals }

NestedBodies ==
    { JObj(<< JField(<<"e","r","r","o","r">>, JObj((c \o s) \o m)) >>) :
        c \in Optional(<<"c","o","d","e">>, { JNum(403), JStr(<<"4","0","3">>) }),
        s \in Optional(<<"s","t","a","t","u","s">>, { JStr(<<"P","E","R","M","I","S","S","I","O","N","_","D","E","N","I","E","D">>) }),
        m \in Optional(<<"m","e","s","s","a","g","e">>,
                       { JStr(<<"A","c","c","e","s","s"," ","d","e","n","i","e","d">>),
                         JStr(<<"B","a","d"," ","t","o","k","e","n",":"," ">> \o SampleJWT),
                         JNum(7) }) }

FlatBodies ==
    { JObj(<< JField(k, e) >> \o d) :
        k \in { <<"e","r","r","o","r">>, <<"E","r","r","o","r">> },
        e \in { JStr(<<"i","n","v","a","l","i","d","_","g","r","a","n","t">>), JNum(401), JNull, JArr(<< >>) },
        d \in Optional(<<"e","r","r","o","r","_","d","e","s","c","r","i","p","t","i","o","n">>,
                       { JStr(<<"T","o","k","e","n"," ","h","a","s"," ","e","x","p","i","r","e","d">>),
                         JStr(<<"r","e","j","e","c","t","e","d"," ">> \o SampleJWT),
                         JNum(1) }) }

OtherBodies ==
    { JObj(<< >>), JObj(<< JField(<<"m","e","s","s","a","g","e">>, JStr(<<"q","u","o","t","a"," ","e","x","c","e","e","d","e","d">>)) >>),
      JNull, JNum(503), JStr(<<"S","e","r","v","i","c","e"," ","U","n","a","v","a","i","l","a","b","l","e">>),
      JArr(<< JStr(SampleJWT) >>),
      JRaw(<< >>), JRaw(<<"u","p","s","t","r","e","a","m"," ","d","o","w","n">>),
      JRaw(<<"<","h","t","m","l",">">> \o SampleJWT) }

ExtractGoogleErrorArgs ==
    [fn : {"ExtractGoogleError"}, body : (NestedBodies \cup FlatBodies) \cup OtherBodies]

ApplyExtractGoogleError ==
    /\ fArg.fn = "ExtractGoogleError"
    /\ ~fRes.done
    /\ fRes' = [done |-> TRUE, out |-> ExtractGoogleError(fArg.body)]
    /\ UNCHANGED <<acqVars, cErr, cCat, fArg, srvVars, rw, conVars>>

\* the members of a decoded body
Absent(fields, name) == Member(fields, name).t = "null"

HasA(fields, name, type) == Member(fields, name).t = type

\* the text or number of a member, the zero value when it is absent
TextOf(fields, name) ==
    IF HasA(fields, name, "string") THEN Member(fields, name).s ELSE << >>

NumberOf(fields, name) ==
    IF HasA(fields, name, "number") THEN Member(fields, name).n ELSE 0

ErrorObject(body) ==
    IF body.t = "object" /\ HasA(body.fields, <<"e","r","r","o","r">>, "object")
    THEN Member(body.fields, <<"e","r","r","o","r">>).fields
    ELSE << >>

DecodesNested(body) ==
    \/ body.t = "null"
    \/ /\ body.t = "object"
       /\ \/ Absent(body.fields, <<"e","r","r","o","r">>)
          \/ /\ HasA(body.fields, <<"e","r","r","o","r">>, "object")
             /\ \/ Absent(ErrorObject(body), <<"c","o","d","e">>)
                \/ HasA(ErrorObject(body), <<"c","o","d","e">>, "number")
             /\ \/ Absent(ErrorObject(body), <<"s","t","a","t","u","s">>)
                \/ HasA(ErrorObject(body), <<"s","t","a","t","u","s">>, "string")
             /\ \/ Absent(ErrorObject(body), <<"m","e","s","s","a","g","e">>)
                \/ HasA(ErrorObject(body), <<"m","e","s","s","a","g","e">>, "string")

DecodesFlat(body) ==
    \/ body.t = "null"
    \/ /\ body.t = "object"
       /\ Absent(body.fields, <<"e","r","r","o","r">>) \/ HasA(body.fields, <<"e","r","r","o","r">>, "string")
       /\ \/ Absent(body.fields, <<"e","r","r","o","r","_","d","e","s","c","r","i","p","t","i","o","n">>)
          \/ HasA(body.fields, <<"e","r","r","o","r","_","d","e","s","c","r","i","p","t","i","o","n">>, "string")

ExampleNested ==
    JObj(<< JField(<<"e","r","r","o","r">>,
                   JObj(<< JField(<<"c","o","d","e">>, JNum(403)),
                           JField(<<"s","t","a","t","u","s">>, JStr(<<"P","E","R","M","I","S","S","I","O","N","_","D","E","N","I","E","D">>)),
                           JField(<<"m","e","s","s","a","g","e">>, JStr(<<"A","c","c","e","s","s"," ","d","e","n","i","e","d">>)) >>)) >>)

ExampleFlat ==
    JObj(<< JField(<<"e","r","r","o","r">>, JStr(<<"i","n","v","a","l","i","d","_","g","r","a","n","t">>)),
            JField(<<"e","r","r","o","r","_","d","e","s","c","r","i","p","t","i","o","n">>, JStr(<<"T","o","k","e","n"," ","h","a","s"," ","e","x","p","i","r","e","d">>)) >>)

\* C13: ExtractGoogleError returns (0, "", "") for an empty body; (code,
\* status, sanitized message) when the body decodes as the nested
\* {error:{code,status,message}} shape; otherwise (0, error, sanitized
\* error_description) when it decodes as the flat {error, error_description}
\* shape; otherwise (0, "", sanitized raw body).  The message is always a
\* result of SanitizeString; the two bodies of the tests give
\* (403, "PERMISSION_DENIED", "Access denied") and
\* (0, "invalid_grant", "Token has expired").
C13_ExtractGoogleError ==
    (fArg.fn = "ExtractGoogleError" /\ fRes.done) =>
        LET body == fArg.body
            fields == IF body.t = "object" THEN body.fields ELSE << >>
            out == fRes.out
        IN  /\ JSONText(body) = << >> =>
                out = [code |-> 0, status |-> << >>, message |-> << >>]
            /\ (JSONText(body) # << >> /\ DecodesNested(body)) =>
                out = [code |-> NumberOf(ErrorObject(body), <<"c","o","d","e">>),
                       status |-> TextOf(ErrorObject(body), <<"s","t","a","t","u","s">>),
                       message |-> SanitizeString(TextOf(ErrorObject(body), <<"m","e","s","s","a","g","e">>))]
            /\ (JSONText(body) # << >> /\ ~DecodesNested(body) /\ DecodesFlat(body)) =>
                out = [code |-> 0,
                       status |-> TextOf(fields, <<"e","r","r","o","r">>),
                       message |-> SanitizeString(TextOf(fields, <<"e","r","r","o","r","_","d","e","s","c","r","i","p","t","i","o","n">>))]
            /\ (JSONText(body) # << >> /\ ~DecodesNested(body) /\ ~DecodesFlat(body)) =>
                out = [code |-> 0, status |-> << >>,
                       message |-> SanitizeString(JSONText(body))]
            /\ body = ExampleNested =>
                out = [code |-> 403, status |-> <<"P","E","R","M","I","S","S","I","O","N","_","D","E","N","I","E","D">>,
                       message |-> <<"A","c","c","e","s","s"," ","d","e","n","i","e","d">>]
            /\ body = ExampleFlat =>
                out = [code |-> 0, status |-> <<"i","n","v","a","l","i","d","_","g","r","a","n","t">>,
                       message |-> <<"T","o","k","e","n"," ","h","a","s"," ","e","x","p","i","r","e","d">>]

\* a flat body whose error_description holds a JWT-shaped text came back with
\* the text redacted
C13_Witness ==
    /\ fArg.fn = "ExtractGoogleError"
    /\ fRes.done
    /\ ~DecodesNested(fArg.body)
    /\ DecodesFlat(fArg.body)
    /\ HasJWTShape(TextOf(fArg.body.fields, <<"e","r","r","o","r","_","d","e","s","c","r","i","p","t","i","o","n">>))
    /\ fRes.out = [code |-> 0, status |-> <<"i","n","v","a","l","i","d","_","g","r","a","n","t">>,
                   message |-> <<"r","e","j","e","c","t","e","d"," ","[","R","E","D","A","C","T","E","D","_","J","W","T","]">>]

(***************************************************************************)
(* The impersonation URLs that IAMCredentialsURL and GetImpersonationEmail *)
(* are applied to: a prefix followed by at most MaxURLPieces pieces.       *)
(***************************************************************************)
MaxURLPieces == 2

serviceAccountsMarker == <<"s","e","r","v","i","c","e","A","c","c","o","u","n","t","s","/">>

URLPieces == {
    serviceAccountsMarker,
    <<"s","a","@","p">>,
    sfxGenerateAccessToken,
    sfxGenerateIdToken,
    <<":","G","e","n","e","r","a","t","e","A","c","c","e","s","s","T","o","k","e","n">>,
    <<"/">> }

RECURSIVE PieceTexts(_)
PieceTexts(n) ==
    IF n = 0
    THEN { << >> }
    ELSE PieceTexts(n - 1)
             \cup { t \o p : t \in PieceTexts(n - 1), p \in URLPieces }

SampleURLs ==
    { << >> } \cup { <<"h","t","t","p","s",":","/","/","i","a","m","/","v","1","/","p","r","o","j","e","c","t","s","/","-","/">> \o t : t \in PieceTexts(MaxURLPieces) }

IAMCredentialsURLArgs == [fn : {"IAMCredentialsURL"}, url : SampleURLs \ { << >> }]

ApplyIAMCredentialsURL ==
    /\ fArg.fn = "IAMCredentialsURL"
    /\ ~fRes.done
    /\ fRes' = [done |-> TRUE,
                out |-> IAMCredentialsURL([ServiceAccountImpersonationURL |-> fArg.url])]
    /\ UNCHANGED <<acqVars, cErr, cCat, fArg, srvVars, rw, conVars>>

\* the URL ends with ":generateAccessToken"
EndsWithGenerateAccessToken(url) ==
    /\ Len(url) >= 20
    /\ \A j \in 1..20 : url[Len(url) - 20 + j] = <<":","g","e","n","e","r","a","t","e","A","c","c","e","s","s","T","o","k","e","n">>[j]

\* C14: the URL of the IAM call is the impersonation URL with a final
\* ":generateAccessToken" replaced by ":generateIdToken"; a URL that does not
\* end with exactly that text (it holds it elsewhere, or in another case) is
\* used unchanged.
C14_IAMURL ==
    (fArg.fn = "IAMCredentialsURL" /\ fRes.done) =>
        /\ EndsWithGenerateAccessToken(fArg.url) =>
            /\ Len(fRes.out) = Len(fArg.url) - 4
            /\ \A j \in 1..(Len(fArg.url) - 20) : fRes.out[j] = fArg.url[j]
            /\ \A j \in 1..16 :
                   fRes.out[Len(fArg.url) - 20 + j] = <<":","g","e","n","e","r","a","t","e","I","d","T","o","k","e","n">>[j]
        /\ ~EndsWithGenerateAccessToken(fArg.url) => fRes.out = fArg.url

\* a URL that holds ":generateAccessToken" before its last character was left
\* as it was
C14_Witness ==
    /\ fArg.fn = "IAMCredentialsURL"
    /\ fRes.done
    /\ Contains(fArg.url, <<":","g","e","n","e","r","a","t","e","A","c","c","e","s","s","T","o","k","e","n","/">>)
    /\ fRes.out = fArg.url

(***************************************************************************)
(* internal/config: GetImpersonationEmail.                                 *)
(***************************************************************************)
\* strings.Index, counted from 1; 0 when sep does not occur in s
Index(s, sep) ==
    LET at == { i \in 1..(Len(s) - Len(sep) + 1) : SubSeq(s, i, i + Len(sep) - 1) = sep }
    IN  IF at = {} THEN 0 ELSE SetMin(at)

\* strings.Split(s, sep)[0]
BeforeFirst_OrNothing(s, sep) ==
    IF Index(s, sep) = 0 THEN << >> ELSE SubSeq(s, 1, Index(s, sep) - 1)

BeforeFirst(s, sep) ==
    IF Index(s, sep) = 0 THEN s ELSE SubSeq(s, 1, Index(s, sep) - 1)

\* strings.Split(s, sep)[1], for an s that holds sep
SecondPart(s, sep) ==
    BeforeFirst(SubSeq(s, Index(s, sep) + Len(sep), Len(s)), sep)

GetImpersonationEmail(g) ==
    IF g.ServiceAccountImpersonationURL = << >>
    THEN << >>
    ELSE IF Index(g.ServiceAccountImpersonationURL, serviceAccountsMarker) = 0
    THEN << >>
    ELSE BeforeFirst(SecondPart(g.ServiceAccountImpersonationURL,
                                serviceAccountsMarker),
                     <<":">>)

GetImpersonationEmailArgs == [fn : {"GetImpersonationEmail"}, url : SampleURLs]

ApplyGetImpersonationEmail ==
    /\ fArg.fn = "GetImpersonationEmail"
    /\ ~fRes.done
    /\ fRes' = [done |-> TRUE,
                out |-> GetImpersonationEmail([ServiceAccountImpersonationURL |-> fArg.url])]
    /\ UNCHANGED <<acqVars, cErr, cCat, fArg, srvVars, rw, conVars>>

\* "serviceAccounts/" stands at position i of s
MarkerAt(s, i) ==
    /\ i + 16 - 1 <= Len(s)
    /\ \A j \in 1..16 : s[i + j - 1] = <<"s","e","r","v","i","c","e","A","c","c","o","u","n","t","s","/">>[j]

HasMarker(s) == \E i \in DOMAIN s : MarkerAt(s, i)

\* what follows the first "serviceAccounts/" of s
AfterMarker(s) ==
    LET i == CHOOSE i \in DOMAIN s : MarkerAt(s, i) /\ \A k \in 1..(i - 1) : ~MarkerAt(s, k)
    IN  [j \in 1..(Len(s) - i - 15) |-> s[i + 15 + j]]

HasColon(s) == \E i \in DOMAIN s : s[i] = ":"

FunctionArgs ==
    ((SanitizeStringArgs \cup SanitizeJSONArgs) \cup ExtractGoogleErrorArgs)
        \cup (IAMCredentialsURLArgs \cup GetImpersonationEmailArgs)

InitFunctions ==
    /\ config = CHOOSE c \in Configs : TRUE
    /\ logLevel = LevelInfo
    /\ tokenFile = FileUnreadable
    /\ pc = "idle"
    /\ audience = ""
    /\ jwt = ""
    /\ accessToken = ""
    /\ result = NoResult
    /\ hist = << >>
    /\ response = NoResponse
    /\ nAcq = 0
    /\ cErr = NilError
    /\ cCat = ""
    /\ fArg \in FunctionArgs
    /\ fRes = NoRes
    /\ env = ImpersonationEnv
    /\ credFile = CredFileWith(config)
    /\ main = Listening("ok")
    /\ req = PostRequest("req-1")
    /\ prev = NoPrev
    /\ rw = NewResponseWriter
    /\ gor = << >>
    /\ lg = << >>
    /\ mu = << >>

NextFunctions ==
    \/ ApplySanitizeString
    \/ ApplySanitizeJSON
    \/ ApplyExtractGoogleError
    \/ ApplyIAMCredentialsURL
    \/ ApplyGetImpersonationEmail

SpecFunctions == InitFunctions /\ [][NextFunctions]_vars

(***************************************************************************)
(* SpecServer: main from the credentials check to ListenAndServe, then     *)
(* /token requests one after the other, each through handleToken and, in   *)
(* impersonation mode, GetIdentityToken.  The credentials file and the     *)
(* subject-token file change under the process.                            *)
(***************************************************************************)
ServerConfigs ==
    { c \in Configs :
        /\ c.Audience = "//iam.googleapis.com/projects/1/providers/p"
        /\ c.ServiceAccountImpersonationURL = urlBase \o sfxGenerateAccessToken }

LoadableCredFiles ==
    { CredFileWith(KeyFileConfig) } \cup { CredFileWith(c) : c \in ServerConfigs }

CredFileStates ==
    { CredFileMissing, CredFileStatError, CredFileUnreadable, CredFileMalformed }
        \cup LoadableCredFiles

\* cfg.Audiences of config.yaml
AllowLists == { << >>, << "https://api.example.com" >> }

Environments ==
    [credentialsFile : {"", credentialsPath}, onGCE : BOOLEAN, Audiences : AllowLists]

\* what the upstreams answer in SpecServer: every kind of answer once
ServerSTSResponses ==
    { UpstreamError(StdError(TRUE, FALSE, << >>)),
      UpstreamHTTP(403, FALSE, "", 0),
      UpstreamHTTP(200, TRUE, "ya29.access-1", 3600) }

ServerIAMResponses ==
    { UpstreamHTTP(500, FALSE, "", 0),
      UpstreamHTTP(200, TRUE, "", 3600),
      UpstreamHTTP(200, TRUE, "eyJ.id-token-2.sig", 3600) }

\* what idtoken.NewTokenSource and ts.Token() do
LibraryOutcomes ==
    { [failed |-> "NewTokenSource", token |-> ""], [failed |-> "Token", token |-> ""] }
    \cup { [failed |-> "", token |-> t] : t \in IdentityTokens }

\* the X-Request-Id header of an incoming request: none, or the caller's
RequestHeaders == {"", "req-1"}

\* uuid.New().String() for the n-th request
NewUUID(n) == <<"uuid-1", "uuid-2", "uuid-3", "uuid-4">>[n]

\* the path and method of a /token request and whether r.ParseForm()
\* accepts it
RequestShapes ==
    { [path |-> "/token", method |-> "GET", formOK |-> TRUE],
      [path |-> "/token", method |-> "POST", formOK |-> FALSE],
      [path |-> "/token", method |-> "POST", formOK |-> TRUE] }

NoRequest ==
    [header |-> "", id |-> "", respHeader |-> "", path |-> "", method |-> "",
     formOK |-> FALSE, ctx |-> Background]

\* a middleware that always makes a new ID
RequestID_AlwaysNew(header, uuid) == uuid

\* RequestIDMiddleware: the header's ID when there is one, a new UUID otherwise
RequestID(header, uuid) == IF header = "" THEN uuid ELSE header

\* the handler the mux of main gives a path to
Route(path) ==
    IF path = "/token" THEN "handleToken"
    ELSE IF path = "/service-account" THEN "handleServiceAccount"
    ELSE IF path = "/healthz" THEN "healthz"
    ELSE IF path = "/readyz" THEN "readyz"
    ELSE "handleIndex"

\* config.LoadGoogleConfig: os.ReadFile, then json.Unmarshal
LoadGoogleConfig(file) ==
    IF file.stat # "ok"
    THEN [failed |-> TRUE, config |-> NoConfig]
    ELSE IF ~file.read
    THEN [failed |-> TRUE, config |-> NoConfig]
    ELSE IF ~file.json
    THEN [failed |-> TRUE, config |-> NoConfig]
    ELSE [failed |-> FALSE, config |-> file.content]

\* main: credentialsFile == "" && !onGCE exits
CheckCredentials ==
    /\ main.pc = "start"
    /\ main' = [main EXCEPT !.pc =
                   IF env.credentialsFile = "" /\ ~env.onGCE THEN "exited"
                   ELSE IF env.credentialsFile # "" THEN "stat"
                   ELSE "listening"]
    /\ UNCHANGED <<acqVars, fnVars, env, credFile, req, prev, rw, conVars>>

\* where main goes after os.Stat(credentialsFile)
AfterStat_ErrorsIgnored(stat) == IF stat = "ok" THEN "load" ELSE "listening"

AfterStat(stat) ==
    IF stat = "ok" THEN "load"
    ELSE IF stat = "missing" THEN "listening"
    ELSE "exited"

StatCredentials ==
    /\ main.pc = "stat"
    /\ main' = [pc |-> AfterStat(credFile.stat), stat |-> credFile.stat]
    /\ UNCHANGED <<acqVars, fnVars, env, credFile, req, prev, rw, conVars>>

LoadCredentials ==
    /\ main.pc = "load"
    /\ LET loaded == LoadGoogleConfig(credFile)
       IN  IF loaded.failed
           THEN /\ main' = [main EXCEPT !.pc = "exited"]
                /\ UNCHANGED config
           ELSE /\ main' = [main EXCEPT !.pc = "listening"]
                /\ config' = loaded.config
    /\ UNCHANGED <<logLevel, tokenFile, pc, audience, jwt, accessToken, result, hist,
                   response, nAcq, fnVars, env, credFile, req, prev, rw, conVars>>

\* the environment replaces, removes or damages the credentials file: between
\* the os.Stat and the read of main in any way, and under the listening
\* server, which reads it no more, by removing it or writing other content
ReplaceCredFile ==
    /\ env.credentialsFile # ""
    /\ main.pc \in {"load", "listening"}
    /\ credFile' \in (IF main.pc = "load"
                      THEN CredFileStates
                      ELSE {CredFileMissing} \cup LoadableCredFiles) \ {credFile}
    /\ UNCHANGED <<acqVars, fnVars, env, main, req, prev, rw, conVars>>

\* the subject-token file of the descriptor changes under the server
RotateWhileImpersonating ==
    /\ config # NoConfig
    /\ UsesImpersonation(config)
    /\ RotateFile

\* how a request got its token source: "" when it did not get that far
AcquiredHow(h) ==
    LET at == { i \in DOMAIN h : h[i].ev = "acquire" }
    IN  IF at = {} THEN "" ELSE h[CHOOSE i \in at : TRUE].how

\* the call of handleToken that failed: the message of its error record
FailedCall(h) ==
    LET at == { i \in DOMAIN h : h[i].ev = "log" /\ h[i].component = "token"
                                   /\ h[i].severity = LevelError
                                   /\ h[i].message \in
                                          {"failed to get identity token",
                                           "failed to create token source",
                                           "failed to get token"} }
    IN  IF at = {} THEN "" ELSE h[CHOOSE i \in at : TRUE].message

\* a request arrives and passes RequestIDMiddleware, RequestLoggingMiddleware
\* and the mux; the one served before is remembered
Arrive(shape, aud, header) ==
    /\ main.pc = "listening"
    /\ pc \in {"idle", "completed"}
    /\ prev' = IF pc = "completed"
               THEN [served |-> TRUE, id |-> req.id, response |-> response,
                     jwt |-> jwt, how |-> AcquiredHow(hist),
                     failed |-> FailedCall(hist),
                     category |-> IF result.err = NilError THEN ""
                                  ELSE GetCategory(result.err)]
               ELSE prev
    /\ LET requestID == RequestID(header, NewUUID(nAcq + 1))
       IN  req' = [header |-> header, id |-> requestID, respHeader |-> requestID,
                   path |-> shape.path, method |-> shape.method,
                   formOK |-> shape.formOK,
                   ctx |-> WithRoute(WithRequestID(Background, requestID),
                                     shape.path)]
    /\ rw' = NewResponseWriter
    /\ audience' = aud
    /\ jwt' = ""
    /\ accessToken' = ""
    /\ result' = NoResult
    /\ hist' = << >>
    /\ response' = NoResponse
    /\ nAcq' = nAcq + 1
    /\ pc' = Route(shape.path)
    /\ UNCHANGED <<config, logLevel, tokenFile, fnVars, env, credFile, main, conVars>>

Request(shape, aud, header) ==
    /\ nAcq < MaxAcq
    /\ Arrive(shape, aud, header)

\* RequestLoggingMiddleware after the handler returned
RequestCompleted ==
    /\ pc = "responded"
    /\ hist' = hist \o Log(req.ctx, "http", LevelInfo, "request completed",
                           [method |-> req.method, path |-> req.path,
                            status_code |-> rw.statusCode])
    /\ pc' = "completed"
    /\ UNCHANGED <<config, logLevel, tokenFile, audience, jwt, accessToken, result,
                   response, nAcq, fnVars, srvVars, rw, conVars>>

\* the allow-list of handleToken
AudienceAllowed_EmptyPasses(list, aud) ==
    Len(list) = 0 \/ aud = "" \/ \E i \in DOMAIN list : list[i] = aud

AudienceAllowed(list, aud) == Len(list) = 0 \/ \E i \in DOMAIN list : list[i] = aud

\* usesImpersonation of handleToken
HandlerUsesImpersonation_Reloaded(g, file) ==
    /\ ~LoadGoogleConfig(file).failed
    /\ UsesImpersonation(LoadGoogleConfig(file).config)

HandlerUsesImpersonation(g, file) == g # NoConfig /\ UsesImpersonation(g)

\* handleToken up to the choice of the token source
HandleToken ==
    /\ pc = "handleToken"
    /\ IF req.method # "POST"
       THEN /\ response' = [status |-> 405, body |-> <<"Method Not Allowed">>]
            /\ rw' = HTTPError(rw, 405)
            /\ hist' = hist
            /\ pc' = "responded"
       ELSE IF ~req.formOK
       THEN /\ response' = [status |-> 400, body |-> <<"Invalid form data">>]
            /\ rw' = HTTPError(rw, 400)
            /\ hist' = hist \o Log(req.ctx, "token", LevelWarn, "invalid form data",
                                   [error |-> "invalid URL escape"])
            /\ pc' = "responded"
       ELSE IF ~AudienceAllowed(env.Audiences, audience)
       THEN /\ response' = [status |-> 400,
                            body |-> <<"Invalid audience selected. request_id=",
                                       GetRequestID(req.ctx)>>]
            /\ rw' = HTTPError(rw, 400)
            /\ hist' = hist \o Log(req.ctx, "token", LevelWarn, "invalid audience selected",
                                   [error_category |-> AudienceInvalid,
                                    audience |-> audience])
            /\ pc' = "responded"
       ELSE IF HandlerUsesImpersonation(config, credFile)
       THEN /\ hist' = Append(hist, [ev |-> "acquire", how |-> "GetIdentityToken"])
            /\ pc' = "ReadSubjectToken"
            /\ UNCHANGED <<response, rw>>
       ELSE /\ hist' = hist
            /\ pc' = "NewTokenSource"
            /\ UNCHANGED <<response, rw>>
    /\ UNCHANGED <<config, logLevel, tokenFile, audience, jwt, accessToken, result,
                   nAcq, fnVars, srvVars, conVars>>

\* handleToken outside impersonation: idtoken.NewTokenSource with the
\* credentials file when a path is set, without options otherwise, then
\* ts.Token()
LibraryToken(outcome) ==
    /\ pc = "NewTokenSource"
    /\ LET how == IF env.credentialsFile # ""
                  THEN "NewTokenSource(WithCredentialsFile)"
                  ELSE "NewTokenSource()"
           acquire == [ev |-> "acquire", how |-> how,
                       credentialsFile |-> env.credentialsFile,
                       audience |-> audience]
       IN  IF outcome.failed = "NewTokenSource"
           THEN /\ hist' = Append(hist, acquire)
                            \o Log(req.ctx, "token", LevelError, "failed to create token source",
                                   [error_category |-> InternalError,
                                    audience |-> audience,
                                    uses_impersonation |-> FALSE,
                                    error |-> "library error"])
                /\ response' = [status |-> 500,
                                body |-> <<"Failed to create token source. request_id=",
                                           GetRequestID(req.ctx)>>]
                /\ rw' = HTTPError(rw, 500)
           ELSE IF outcome.failed = "Token"
           THEN /\ hist' = Append(hist, acquire)
                            \o Log(req.ctx, "token", LevelError, "failed to get token",
                                   [error_category |-> InternalError,
                                    audience |-> audience,
                                    uses_impersonation |-> FALSE,
                                    error |-> "library error"])
                /\ response' = [status |-> 500,
                                body |-> <<"Failed to get token. request_id=",
                                           GetRequestID(req.ctx)>>]
                /\ rw' = HTTPError(rw, 500)
           ELSE /\ hist' = Append(hist, acquire)
                /\ response' = [status |-> 200, body |-> outcome.token]
                /\ rw' = Write(rw)
    /\ pc' = "responded"
    /\ UNCHANGED <<config, logLevel, tokenFile, audience, jwt, accessToken, result,
                   nAcq, fnVars, srvVars, conVars>>

InitServer ==
    /\ env \in Environments
    /\ credFile \in IF env.credentialsFile = "" THEN {CredFileMissing} ELSE CredFileStates
    /\ main = [pc |-> "start", stat |-> "none"]
    /\ config = NoConfig
    /\ logLevel = LevelInfo
    /\ tokenFile = [ok |-> TRUE, data |-> "k8s-jwt-1"]
    /\ pc = "idle"
    /\ audience = ""
    /\ jwt = ""
    /\ accessToken = ""
    /\ result = NoResult
    /\ hist = << >>
    /\ response = NoResponse
    /\ nAcq = 0
    /\ cErr = NilError
    /\ cCat = ""
    /\ fArg = NoArg
    /\ fRes = NoRes
    /\ req = NoRequest
    /\ prev = NoPrev
    /\ rw = NewResponseWriter
    /\ gor = << >>
    /\ lg = << >>
    /\ mu = << >>

NextServer ==
    \/ CheckCredentials
    \/ StatCredentials
    \/ LoadCredentials
    \/ ReplaceCredFile
    \/ \E shape \in RequestShapes, aud \in CallerAudiences \cup {""},
          header \in RequestHeaders :
           Request(shape, aud, header)
    \/ HandleToken
    \/ \E outcome \in LibraryOutcomes : LibraryToken(outcome)
    \/ ReadSubjectToken
    \/ \E resp \in ServerSTSResponses : ExchangeSTS(resp)
    \/ \E resp \in ServerIAMResponses : GenerateIAMToken(resp)
    \/ HandleResult
    \/ RequestCompleted
    \/ RotateWhileImpersonating

SpecServer == InitServer /\ [][NextServer]_vars


(***************************************************************************)
(* Claims on the server: startup in main and the /token handler.           *)
(***************************************************************************)

\* the token source the startup environment selects: the descriptor main
\* loaded and the credentials path of the environment
StartupMode ==
    IF config # NoConfig /\ UsesImpersonation(config) THEN "GetIdentityToken"
    ELSE IF env.credentialsFile # "" THEN "NewTokenSource(WithCredentialsFile)"
    ELSE "NewTokenSource()"

\* C15: the credential mode is fixed by the startup environment. A descriptor
\* is loaded exactly when main found the file; with an impersonation URL in
\* it every token request goes to GetIdentityToken, without one to the
\* ID-token library with that file, and with no path on GCP to the library
\* without options; consecutive requests never differ in it, whatever happens
\* to the file under the listening server.
C15_ModeFixedAtStartup ==
    /\ main.pc = "listening" => (config # NoConfig <=> main.stat = "ok")
    /\ main.pc # "listening" => pc = "idle"
    /\ \A i \in EvIdx("acquire") :
          /\ hist[i].how = StartupMode
          /\ (main.stat = "ok" /\ UsesImpersonation(config))
                => hist[i].how = "GetIdentityToken"
          /\ (main.stat = "ok" /\ ~UsesImpersonation(config))
                => /\ hist[i].how = "NewTokenSource(WithCredentialsFile)"
                   /\ hist[i].credentialsFile = env.credentialsFile
          /\ (env.credentialsFile = "" /\ env.onGCE)
                => hist[i].how = "NewTokenSource()"
    /\ pc \in {"ReadSubjectToken", "ExchangeSTS", "GenerateIAMToken", "returned"}
          => AcquiredHow(hist) = "GetIdentityToken"
    /\ pc = "NewTokenSource" => StartupMode # "GetIdentityToken"
    /\ (prev.served /\ prev.how # "" /\ AcquiredHow(hist) # "")
          => prev.how = AcquiredHow(hist)

\* two requests served by impersonation although the credentials file was
\* replaced or removed after startup
C15_Witness ==
    /\ prev.served
    /\ prev.how = "GetIdentityToken"
    /\ AcquiredHow(hist) = "GetIdentityToken"
    /\ credFile # CredFileWith(config)
    /\ pc = "responded"


\* C16 as stated: the listening server has a resolvable credential mode, a
\* loaded descriptor or the metadata platform
C16_Original ==
    main.pc = "listening" => (config # NoConfig \/ env.onGCE)

\* C16: main aborts before listening when no credentials path is set off GCP,
\* when os.Stat fails otherwise than with "not exist", and when the file it
\* found cannot be read or parsed; a path that names no existing file does
\* not abort startup, on GCP or off it, and the server then listens without
\* a descriptor.
C16_StartupAborts ==
    /\ (env.credentialsFile = "" /\ ~env.onGCE) => main.pc \in {"start", "exited"}
    /\ main.stat = "error" => main.pc = "exited"
    /\ main.pc = "listening" =>
          /\ env.credentialsFile # "" \/ env.onGCE
          /\ main.stat \in {"none", "missing", "ok"}
          /\ main.stat = "none" <=> env.credentialsFile = ""
          /\ main.stat = "ok" => CredFileWith(config) \in LoadableCredFiles
          /\ main.stat # "ok" => config = NoConfig
    /\ main.pc = "exited" => (pc = "idle" /\ config = NoConfig)

\* the server listens, and has answered a request, off GCP with a credentials
\* path that named no file at startup
C16_Witness ==
    /\ main.pc = "listening"
    /\ env.credentialsFile # ""
    /\ ~env.onGCE
    /\ main.stat = "missing"
    /\ config = NoConfig
    /\ pc = "responded"


\* C18: every acquisition by impersonation reads the subject-token file once,
\* and the subject_token it sends to STS is the content the file had at that
\* read, whatever an earlier acquisition saw; after a failed read nothing is
\* sent and the file is not read again.
C18_SubjectTokenFresh ==
    /\ Cardinality(EvIdx("read_file")) <= 1
    /\ \A i \in EvIdx("sts_request") :
          \E r \in EvIdx("read_file") :
              /\ r < i
              /\ hist[r].ok
              /\ hist[i].body.SubjectToken = hist[r].data
    /\ \A r \in EvIdx("read_file") :
          ~hist[r].ok =>
              /\ EvIdx("sts_request") = {}
              /\ EvIdx("iam_request") = {}
              /\ pc \in {"returned", "responded", "completed"}
              /\ result.err # NilError
              /\ GetCategory(result.err) = TokenFileReadError
    /\ pc \in {"ExchangeSTS", "GenerateIAMToken"} => Cardinality(EvIdx("read_file")) = 1

\* the file was rewritten between two acquisitions: the second sends the new
\* content to STS, not the one the first acquisition read
C18_Witness ==
    /\ prev.served
    /\ prev.jwt # ""
    /\ \E i \in EvIdx("sts_request") :
          /\ hist[i].body.SubjectToken # prev.jwt
          /\ hist[i].body.SubjectToken = jwt


\* the credential operations of a request: the choice of a token source, the
\* read of the subject token, the calls to STS and IAM
CredentialOperations ==
    { i \in DOMAIN hist :
        hist[i].ev \in {"acquire", "read_file", "call", "sts_request", "iam_request"} }

Listed(aud) == \E i \in DOMAIN env.Audiences : env.Audiences[i] = aud

ValidPost == req.method = "POST" /\ req.formOK

\* C19: with a non-empty audiences list a token is issued only for a listed
\* audience, and a POST with any other audience, the empty one included, is
\* answered 400 with no credential operation performed; with an empty list
\* every audience of a valid POST reaches the token source.
C19_AllowList ==
    /\ (Len(env.Audiences) > 0 /\ pc = "responded" /\ response.status = 200)
          => Listed(audience)
    /\ (Len(env.Audiences) > 0 /\ ValidPost /\ ~Listed(audience))
          => /\ CredentialOperations = {}
             /\ pc \in {"handleToken", "responded", "completed"}
             /\ pc = "responded" =>
                   /\ response.status = 400
                   /\ response.body = <<"Invalid audience selected. request_id=", req.id>>
    /\ (ValidPost /\ pc = "responded" /\ (Len(env.Audiences) = 0 \/ Listed(audience)))
          => /\ CredentialOperations # {}
             /\ response.status \in {200, 500}
    /\ ~ValidPost => CredentialOperations = {}

\* a POST with the empty audience refused under a non-empty list before any
\* credential operation
C19_Witness ==
    /\ Len(env.Audiences) > 0
    /\ ValidPost
    /\ audience = ""
    /\ pc = "responded"
    /\ response.status = 400
    /\ CredentialOperations = {}


\* the request's token acquisition failed and was answered
AcquisitionFailed == pc = "responded" /\ response.status = 500

PrevAcquisitionFailed == prev.served /\ prev.response.status = 500

\* the text handleToken answers for the call that failed
FailureText(call) ==
    IF call = "failed to get identity token"
    THEN "Failed to get identity token. request_id="
    ELSE IF call = "failed to create token source"
    THEN "Failed to create token source. request_id="
    ELSE "Failed to get token. request_id="

\* C20 as stated: any two failing requests with the same request ID get the
\* same response
C20_Original ==
    (AcquisitionFailed /\ PrevAcquisitionFailed /\ prev.id = req.id)
        => response = prev.response

\* C20: the body of a failed acquisition is the text of the handler call that
\* failed and the request ID, nothing else: by impersonation always the same
\* text, whatever the category, the operation or the upstream response, and
\* with the ID-token library one of two texts, by whether the token source or
\* its token failed; two failing requests with the same ID and the same
\* failing call get the same response.
C20_GenericFailure ==
    /\ AcquisitionFailed =>
          /\ FailedCall(hist) # ""
          /\ response.body = <<FailureText(FailedCall(hist)), req.id>>
          /\ AcquiredHow(hist) = "GetIdentityToken"
                <=> FailedCall(hist) = "failed to get identity token"
    /\ (AcquisitionFailed /\ PrevAcquisitionFailed /\ prev.id = req.id
           /\ prev.failed = FailedCall(hist))
          => response = prev.response

\* two acquisitions by impersonation fail under the same request ID, the
\* first at the read of the subject token and the second at IAM, and are
\* answered alike
C20_Witness ==
    /\ AcquisitionFailed
    /\ PrevAcquisitionFailed
    /\ prev.id = req.id
    /\ prev.category = TokenFileReadError
    /\ GetCategory(result.err) \in {IAMNon200, IAMEmptyToken}
    /\ response = prev.response


\* the text holds three dot-separated segments, of any length, of segment
\* characters
HasThreeSegments(s) ==
    \E d1, d2 \in DOMAIN s :
        /\ d1 + 1 < d2
        /\ s[d1] = "."
        /\ s[d2] = "."
        /\ AllJWTChars(s, d1 - 1, d1 - 1)
        /\ AllJWTChars(s, d1 + 1, d2 - 1)
        /\ AllJWTChars(s, d2 + 1, d2 + 1)

\* C26: SanitizeString replaces every token of three dot-separated segments
\* by [REDACTED_JWT] whatever the lengths of the segments, as
\* TestSanitizeString expects: "abc.def.ghi", "xyz.uvw.rst",
\* "eyJhbG.eyJzdWIi.sig123" and "api.example.com" become [REDACTED_JWT],
\* "Token1: abc.def.ghi Token2: xyz.uvw.rst" becomes
\* "Token1: [REDACTED_JWT] Token2: [REDACTED_JWT]", and a text without such a
\* token comes back unchanged.
C26_AnySegmentLength ==
    (fArg.fn = "SanitizeString" /\ fRes.done) =>
        /\ ~HasThreeSegments(fRes.out)
        /\ ~HasThreeSegments(fArg.s) => fRes.out = fArg.s
        /\ fArg.s \in { <<"a","b","c",".","d","e","f",".","g","h","i">>, <<"x","y","z",".","u","v","w",".","r","s","t">>, <<"e","y","J","h","b","G",".","e","y","J","z","d","W","I","i",".","s","i","g","1","2","3">>,
                        <<"a","p","i",".","e","x","a","m","p","l","e",".","c","o","m">> }
              => fRes.out = RedactedJWT
        /\ fArg.s = <<"T","o","k","e","n","1",":"," ","a","b","c",".","d","e","f",".","g","h","i"," ","T","o","k","e","n","2",":"," ","x","y","z",".","u","v","w",".","r","s","t">>
              => fRes.out = <<"T","o","k","e","n","1",":"," ","[","R","E","D","A","C","T","E","D","_","J","W","T","]"," ","T","o","k","e","n","2",":"," ","[","R","E","D","A","C","T","E","D","_","J","W","T","]">>
        /\ fArg.s = <<"a","p","i",".","e","x","a","m","p","l","e",".","c","o","m"," ","r","e","t","u","r","n","e","d"," ","e","r","r","o","r">>
              => fRes.out = <<"[","R","E","D","A","C","T","E","D","_","J","W","T","]"," ","r","e","t","u","r","n","e","d"," ","e","r","r","o","r">>


(***************************************************************************)
(* Claims on the fields of the error GetIdentityToken returns.             *)
(***************************************************************************)

\* C25 as stated: every error GetIdentityToken returns carries the operation
\* "sts_exchange" or "generate_id_token"
C25_Original ==
    (Returned /\ result.err # NilError) =>
        GetOperation(result.err) \in {"sts_exchange", "generate_id_token"}

\* C25: every error of exchangeToken is a CategorizedError with operation
\* "sts_exchange" and every error of generateIdentityToken one with
\* "generate_id_token"; the error of a failed read of the subject-token file
\* carries no operation (the empty string), and GetIdentityToken returns one
\* of these three, unchanged.
C25_Operations ==
    /\ \A i \in ReturnIdx("exchangeToken") :
           hist[i].err # NilError =>
               /\ hist[i].err.kind = "categorized"
               /\ hist[i].err.Operation = "sts_exchange"
    /\ \A i \in ReturnIdx("generateIdentityToken") :
           hist[i].err # NilError =>
               /\ hist[i].err.kind = "categorized"
               /\ hist[i].err.Operation = "generate_id_token"
    /\ (Returned /\ result.err # NilError) =>
           LET op == GetOperation(result.err)
           IN  /\ result.err.kind = "categorized"
               /\ op = "" <=> \E i \in EvIdx("read_file") : ~hist[i].ok
               /\ op = "sts_exchange" <=>
                      \E i \in ReturnIdx("exchangeToken") : hist[i].err # NilError
               /\ op = "generate_id_token" <=>
                      \E i \in ReturnIdx("generateIdentityToken") : hist[i].err # NilError
               /\ op \in {"", "sts_exchange", "generate_id_token"}

\* the read of the subject-token file failed and the error returned carries
\* no operation
C25_Witness ==
    /\ pc = "returned"
    /\ result.err # NilError
    /\ GetCategory(result.err) = TokenFileReadError
    /\ GetOperation(result.err) = ""
    /\ CallIdx("exchangeToken") = {}

\* C30: the status code of an error GetIdentityToken returns is non-zero
\* exactly when its category is STS_NON_200 or IAM_NON_200, and is then the
\* HTTP status of the upstream response that failed the call; every other
\* category carries 0.
C30_StatusCodeOnlyNon200 ==
    (Returned /\ result.err # NilError) =>
        LET code == GetStatusCode(result.err)
            category == GetCategory(result.err)
        IN  /\ code # 0 <=> category \in {STSNon200, IAMNon200}
            /\ category = STSNon200 =>
                   /\ EvIdx("iam_response") = {}
                   /\ \E i \in EvIdx("sts_response") :
                          /\ hist[i].resp.kind = "http"
                          /\ hist[i].resp.status # 200
                          /\ code = hist[i].resp.status
            /\ category = IAMNon200 =>
                   \E i \in EvIdx("iam_response") :
                       /\ hist[i].resp.kind = "http"
                       /\ hist[i].resp.status # 200
                       /\ code = hist[i].resp.status
            /\ category \in {TokenFileReadError, NetworkDNSError, NetworkTimeout,
                             STSHTTPError, IAMHTTPError, STSResponseDecodeError,
                             IAMResponseDecodeError, STSEmptyAccessToken,
                             IAMEmptyToken, InternalError} => code = 0

\* IAM answered 403 after a successful exchange and the error returned
\* carries 403
C30_Witness ==
    /\ pc = "returned"
    /\ result.err # NilError
    /\ GetCategory(result.err) = IAMNon200
    /\ GetStatusCode(result.err) = 403
    /\ \E i \in EvIdx("iam_response") : hist[i].resp.status = 403


(***************************************************************************)
(* SpecExchange: one call of exchangeToken with the subject token as the   *)
(* text the file holds, and STS answers whose body may quote that token.   *)
(***************************************************************************)
\* subject tokens: three segments of 20 characters, the same with a first
\* segment that begins with "-", and three short segments
SubjectTokenTexts ==
    { SampleJWT,
      ((<<"-">> \o Rep("b", jwtMinSegment - 1)) \o <<".">> \o Rep("a", jwtMinSegment))
          \o <<".">> \o Rep("a", jwtMinSegment),
      <<"e","y","J","h","b","G",".","e","y","J","z","d","W","I","i",".","s","i","g","1","2","3">> }

\* what STS may answer to a request that carried token
ExchangeResponses(token) ==
    { UpstreamError(StdError(TRUE, FALSE, << >>)),
      UpstreamHTTP(200, TRUE, "ya29.access-1", 3600),
      UpstreamHTTP(200, TRUE, "", 3600),
      UpstreamHTTP(200, FALSE, "", 0),
      UpstreamHTTP(403, FALSE, "", 0),
      UpstreamHTTPBody(403, ExampleNested),
      UpstreamHTTPBody(400, ExampleFlat),
      UpstreamHTTPBody(400,
          JObj(<< JField(<<"e","r","r","o","r">>,
                         JObj(<< JField(<<"c","o","d","e">>, JNum(400)),
                                 JField(<<"s","t","a","t","u","s">>, JStr(<<"I","N","V","A","L","I","D","_","A","R","G","U","M","E","N","T">>)),
                                 JField(<<"m","e","s","s","a","g","e">>,
                                        JStr(<<"I","n","v","a","l","i","d"," ","t","o","k","e","n",":"," ">> \o token)) >>)) >>)),
      UpstreamHTTPBody(400,
          JObj(<< JField(<<"e","r","r","o","r">>, JStr(<<"i","n","v","a","l","i","d","_","g","r","a","n","t">>)),
                  JField(<<"e","r","r","o","r","_","d","e","s","c","r","i","p","t","i","o","n">>, JStr(<<"B","a","d"," ","t","o","k","e","n"," ">> \o token)) >>)),
      UpstreamHTTPBody(400,
          JObj(<< JField(<<"e","r","r","o","r">>, JStr(token)),
                  JField(<<"e","r","r","o","r","_","d","e","s","c","r","i","p","t","i","o","n">>, JStr(<<"T","o","k","e","n"," ","h","a","s"," ","e","x","p","i","r","e","d">>)) >>)),
      UpstreamHTTPBody(502, JRaw(<<"u","p","s","t","r","e","a","m"," ","r","e","j","e","c","t","e","d"," ">> \o token)) }

InitExchange ==
    /\ config \in ServerConfigs
    /\ logLevel \in Levels
    /\ tokenFile \in { [ok |-> TRUE, data |-> t] : t \in SubjectTokenTexts }
    /\ pc = "ReadSubjectToken"
    /\ audience = "https://api.example.com"
    /\ jwt = ""
    /\ accessToken = ""
    /\ result = NoResult
    /\ hist = << >>
    /\ response = NoResponse
    /\ nAcq = 1
    /\ cErr = NilError
    /\ cCat = ""
    /\ fArg = NoArg
    /\ fRes = NoRes
    /\ env = ImpersonationEnv
    /\ credFile = CredFileWith(config)
    /\ main = Listening("ok")
    /\ req = PostRequest("req-1")
    /\ prev = NoPrev
    /\ rw = NewResponseWriter
    /\ gor = << >>
    /\ lg = << >>
    /\ mu = << >>

NextExchange ==
    \/ ReadSubjectToken
    \/ \E resp \in ExchangeResponses(tokenFile.data) : ExchangeSTS(resp)

SpecExchange == InitExchange /\ [][NextExchange]_vars

\* the records of the sts logger
STSRecords == { i \in EvIdx("log") : hist[i].component = "sts" }

\* the fields of a record that hold text taken from the body of the response
BodyTextFields == {"google_status", "sanitized_message"}

NumberFields == {"http_status", "expires_in", "google_code"}

\* C27: every call of exchangeToken writes exactly one log record, whatever
\* its outcome; no field of the record contains the subject token or the
\* access token returned; the record of a success carries expires_in.
C27_OneRecordWithoutTokens ==
    \A r \in ReturnIdx("exchangeToken") :
        /\ Cardinality(STSRecords) = 1
        /\ \A i \in STSRecords :
               LET fields == hist[i].fields
               IN  /\ \A k \in (DOMAIN fields) \cap BodyTextFields :
                          ~Contains(fields[k], jwt)
                   /\ \A k \in (DOMAIN fields) \ (BodyTextFields \cup NumberFields) :
                          hist[r].value = "" \/ fields[k] # hist[r].value
                   /\ hist[r].err = NilError =>
                          /\ "expires_in" \in DOMAIN fields
                          /\ \E s \in EvIdx("sts_response") :
                                 fields.expires_in = hist[s].resp.expires_in


(***************************************************************************)
(* SpecHTTP: the server from the load of config.yaml and of the template,  *)
(* then one request after the other to any path of the mux, through        *)
(* RequestIDMiddleware, RequestLoggingMiddleware and the handler, while    *)
(* the credentials file changes under the listening server.                *)
(***************************************************************************)
\* requests followed through the middleware and every handler
MaxRequests == 1

\* what main finds: as Environments, and whether loadConfig and the parse of
\* the embedded template succeed
HTTPEnvironments ==
    [credentialsFile : {"", credentialsPath}, onGCE : BOOLEAN, Audiences : AllowLists,
     configOK : BOOLEAN, templateOK : BOOLEAN]

\* requests to the other paths of the mux; "/favicon.ico" has no pattern of
\* its own and falls to the handler of "/"
RouteShapes ==
    { [path |-> p, method |-> "GET", formOK |-> TRUE] :
        p \in {"/", "/favicon.ico", "/service-account", "/healthz", "/readyz"} }

\* the audience parameter a request carries
AudiencesFor(shape) ==
    IF shape.path = "/token" THEN CallerAudiences \cup {""} ELSE {""}

\* main up to the credentials check: loadConfig and template.ParseFS, each
\* ending the process when it fails
LoadConfigAndTemplate ==
    /\ main.pc = "init"
    /\ main' = [main EXCEPT !.pc = IF ~env.configOK \/ ~env.templateOK
                                   THEN "exited" ELSE "start"]
    /\ UNCHANGED <<acqVars, fnVars, env, credFile, req, prev, rw, conVars>>

\* under the listening server the credentials path stops being examinable
\* (os.Stat fails otherwise than with "not exist"), or the file stops being
\* readable or being JSON
DamageCredFile ==
    /\ env.credentialsFile # ""
    /\ main.pc = "listening"
    /\ credFile' \in {CredFileStatError, CredFileUnreadable, CredFileMalformed}
                        \ {credFile}
    /\ UNCHANGED <<acqVars, fnVars, env, main, req, prev, rw, conVars>>

RouteRequest(shape, aud, header) ==
    /\ nAcq < MaxRequests
    /\ Arrive(shape, aud, header)

\* handleIndex: http.NotFound off "/", then tmpl.ExecuteTemplate, which can
\* fail before or after it wrote a part of the page
TemplateOutcomes == {"ok", "error", "error after write"}

HandleIndex(outcome) ==
    /\ pc = "handleIndex"
    /\ IF req.path # "/"
       THEN /\ response' = [status |-> 404, body |-> <<"404 page not found">>]
            /\ rw' = HTTPError(rw, 404)
            /\ hist' = hist
       ELSE IF outcome = "ok"
       THEN /\ response' = [status |-> 200, body |-> <<"index.html">>]
            /\ rw' = Write(rw)
            /\ hist' = hist
       ELSE IF outcome = "error"
       THEN /\ response' = [status |-> 500,
                            body |-> <<"Internal Server Error. request_id=",
                                       GetRequestID(req.ctx)>>]
            /\ rw' = HTTPError(rw, 500)
            /\ hist' = hist \o Log(req.ctx, "ui", LevelError,
                                   "template execution error",
                                   [error |-> "template error"])
       ELSE /\ response' = [status |-> 200,
                            body |-> <<"index.html (part)",
                                       "Internal Server Error. request_id=",
                                       GetRequestID(req.ctx)>>]
            /\ rw' = HTTPError(Write(rw), 500)
            /\ hist' = hist \o Log(req.ctx, "ui", LevelError,
                                   "template execution error",
                                   [error |-> "template error"])
    /\ pc' = "responded"
    /\ UNCHANGED <<config, logLevel, tokenFile, audience, jwt, accessToken, result,
                   nAcq, fnVars, srvVars, conVars>>

\* client_email of a decoded credentials file
ClientEmail(content) ==
    IF content = KeyFileConfig THEN "portal@project.iam.gserviceaccount.com" ELSE ""

\* handleServiceAccount: the e-mail of the impersonated account, of the
\* metadata server, or of the credentials file read now
HandleServiceAccount(metadataOK) ==
    /\ pc = "handleServiceAccount"
    /\ LET page(email) ==
               /\ response' = [status |-> 200, body |-> <<"Service Account:", email>>]
               /\ rw' = Write(rw)
           failed(text) ==
               /\ response' = [status |-> 500, body |-> <<text>>]
               /\ rw' = HTTPError(rw, 500)
       IN  IF config # NoConfig /\ UsesImpersonation(config)
           THEN page(GetImpersonationEmail(config))
           ELSE IF env.onGCE
           THEN IF metadataOK
                THEN page("default@metadata")
                ELSE failed("Failed to get service account email")
           ELSE IF credFile.stat # "ok" \/ ~credFile.read
           THEN failed("Failed to read credentials file")
           ELSE IF ~credFile.json
           THEN failed("Failed to parse credentials")
           ELSE page(ClientEmail(credFile.content))
    /\ pc' = "responded"
    /\ UNCHANGED <<config, logLevel, tokenFile, audience, jwt, accessToken, result,
                   hist, nAcq, fnVars, srvVars, conVars>>

\* HealthzHandler
Healthz ==
    /\ pc = "healthz"
    /\ response' = [status |-> 200, body |-> <<"ok">>]
    /\ rw' = Write(WriteHeader(rw, 200))
    /\ pc' = "responded"
    /\ UNCHANGED <<config, logLevel, tokenFile, audience, jwt, accessToken, result,
                   hist, nAcq, fnVars, srvVars, conVars>>

\* the ReadyzConfig main registers the handler with
ReadyzConfigOf(e) ==
    [Template |-> e.templateOK, ConfigLoaded |-> TRUE,
     CredentialsRequired |-> ~e.onGCE, CredentialsFile |-> e.credentialsFile]

\* ReadyzHandler, stat being what os.Stat(cfg.CredentialsFile) finds
ReadyzHandler(cfg, stat) ==
    IF ~cfg.Template
    THEN [status |-> 503, body |-> <<"template not loaded">>]
    ELSE IF cfg.CredentialsRequired /\ cfg.CredentialsFile # "" /\ stat = "missing"
    THEN [status |-> 503, body |-> <<"credentials file not found">>]
    ELSE [status |-> 200, body |-> <<"ok">>]

\* GET /readyz; the state of the credentials path at that moment is noted
Readyz ==
    /\ pc = "readyz"
    /\ response' = ReadyzHandler(ReadyzConfigOf(env), credFile.stat)
    /\ rw' = IF response'.status = 200
             THEN Write(WriteHeader(rw, 200))
             ELSE HTTPError(rw, 503)
    /\ hist' = Append(hist, [ev |-> "readyz", found |-> credFile.stat])
    /\ pc' = "responded"
    /\ UNCHANGED <<config, logLevel, tokenFile, audience, jwt, accessToken, result,
                   nAcq, fnVars, srvVars, conVars>>

InitHTTP ==
    /\ env \in HTTPEnvironments
    /\ credFile \in IF env.credentialsFile = "" THEN {CredFileMissing} ELSE CredFileStates
    /\ main = [pc |-> "init", stat |-> "none"]
    /\ config = NoConfig
    /\ logLevel = LevelInfo
    /\ tokenFile = [ok |-> TRUE, data |-> "k8s-jwt-1"]
    /\ pc = "idle"
    /\ audience = ""
    /\ jwt = ""
    /\ accessToken = ""
    /\ result = NoResult
    /\ hist = << >>
    /\ response = NoResponse
    /\ nAcq = 0
    /\ cErr = NilError
    /\ cCat = ""
    /\ fArg = NoArg
    /\ fRes = NoRes
    /\ req = NoRequest
    /\ prev = NoPrev
    /\ rw = NewResponseWriter
    /\ gor = << >>
    /\ lg = << >>
    /\ mu = << >>

NextHTTP ==
    \/ LoadConfigAndTemplate
    \/ CheckCredentials
    \/ StatCredentials
    \/ LoadCredentials
    \/ ReplaceCredFile
    \/ DamageCredFile
    \/ \E shape \in RequestShapes \cup RouteShapes, header \in RequestHeaders :
          \E aud \in AudiencesFor(shape) : RouteRequest(shape, aud, header)
    \/ \E outcome \in TemplateOutcomes : HandleIndex(outcome)
    \/ \E metadataOK \in BOOLEAN : HandleServiceAccount(metadataOK)
    \/ Healthz
    \/ Readyz
    \/ HandleToken
    \/ \E outcome \in LibraryOutcomes : LibraryToken(outcome)
    \/ ReadSubjectToken
    \/ \E resp \in ServerSTSResponses : ExchangeSTS(resp)
    \/ \E resp \in ServerIAMResponses : GenerateIAMToken(resp)
    \/ HandleResult
    \/ RequestCompleted

SpecHTTP == InitHTTP /\ [][NextHTTP]_vars

\* a handler of the three routes has answered
Answered == pc \in {"responded", "completed"}

\* the log records of one component
RecordsOf(component) == { i \in EvIdx("log") : hist[i].component = component }

\* C21: the ID of a request is the X-Request-Id header it came with when that
\* is not empty and a newly generated UUID otherwise; the X-Request-Id
\* response header carries the same ID, and so does every log record written
\* for the request, those of the token, sts and iam loggers and the "request
\* completed" record of the middleware included.
C21_RequestID ==
    /\ req # NoRequest =>
          /\ req.header # "" => req.id = req.header
          /\ req.header = "" => req.id = NewUUID(nAcq)
          /\ req.respHeader = req.id
          /\ GetRequestID(req.ctx) = req.id
    /\ \A i \in EvIdx("log") : hist[i].request_id = req.id /\ req.id # ""
    /\ pc = "completed" =>
          \E i \in RecordsOf("http") :
              /\ hist[i].message = "request completed"
              /\ i = Len(hist)

\* a request without the header went through STS and IAM and was completed:
\* the records of the sts, iam and http loggers carry the generated UUID
C21_Witness ==
    /\ pc = "completed"
    /\ req.header = ""
    /\ req.id = "uuid-1"
    /\ RecordsOf("sts") # {}
    /\ RecordsOf("iam") # {}
    /\ \A i \in EvIdx("log") : hist[i].request_id = "uuid-1"

\* C22: every error response, status 400 and above, of the handlers of "/",
\* "/token" and "/service-account" holds the request ID in its body.
C22_ErrorBodiesCarryID ==
    (/\ Answered
     /\ Route(req.path) \in {"handleIndex", "handleToken", "handleServiceAccount"}
     /\ response.status >= 400)
        => \E i \in DOMAIN response.body : response.body[i] = req.id

\* C23: GET /readyz answers 200 only if the template is loaded, the
\* configuration is parsed and, when credentials are required (off GCP), the
\* credentials file exists; in every other case it answers 503 with a
\* message.
C23_ReadyOnlyWhenLoaded ==
    (Answered /\ req.path = "/readyz") =>
        LET found == hist[CHOOSE i \in EvIdx("readyz") : TRUE].found
            ready == /\ env.templateOK
                     /\ env.configOK
                     /\ ~env.onGCE => found = "ok"
        IN  /\ response.status = 200 <=> ready
            /\ response.status \in {200, 503}
            /\ response.status = 503 => response.body # << >>


(***************************************************************************)
(* SpecWriter: one request whose handler calls WriteHeader and Write on    *)
(* the wrapped writer in any order and number, then returns to             *)
(* RequestLoggingMiddleware.                                               *)
(***************************************************************************)
\* calls a handler makes on the writer
MaxCalls == 3

\* codes a handler passes to WriteHeader
StatusCodes == {200, 404, 500, 503}

\* the calls made on the writer so far
WriterCalls == { i \in DOMAIN hist : hist[i].ev \in {"WriteHeader", "Write"} }

HandlerWriteHeader(code) ==
    /\ pc = "handler"
    /\ Cardinality(WriterCalls) < MaxCalls
    /\ rw' = WriteHeader(rw, code)
    /\ hist' = Append(hist, [ev |-> "WriteHeader", code |-> code])
    /\ UNCHANGED <<config, logLevel, tokenFile, pc, audience, jwt, accessToken,
                   result, response, nAcq, fnVars, srvVars, conVars>>

HandlerWrite ==
    /\ pc = "handler"
    /\ Cardinality(WriterCalls) < MaxCalls
    /\ rw' = Write(rw)
    /\ hist' = Append(hist, [ev |-> "Write"])
    /\ UNCHANGED <<config, logLevel, tokenFile, pc, audience, jwt, accessToken,
                   result, response, nAcq, fnVars, srvVars, conVars>>

\* the handler returns to next.ServeHTTP's caller
HandlerReturns ==
    /\ pc = "handler"
    /\ pc' = "responded"
    /\ UNCHANGED <<config, logLevel, tokenFile, audience, jwt, accessToken, result,
                   hist, response, nAcq, fnVars, srvVars, rw, conVars>>

InitWriter ==
    /\ config = NoConfig
    /\ logLevel = LevelInfo
    /\ tokenFile = [ok |-> TRUE, data |-> "k8s-jwt-1"]
    /\ pc = "handler"
    /\ audience = ""
    /\ jwt = ""
    /\ accessToken = ""
    /\ result = NoResult
    /\ hist = << >>
    /\ response = NoResponse
    /\ nAcq = 1
    /\ cErr = NilError
    /\ cCat = ""
    /\ fArg = NoArg
    /\ fRes = NoRes
    /\ env = ImpersonationEnv
    /\ credFile = CredFileMissing
    /\ main = Listening("missing")
    /\ req = PostRequest("req-1")
    /\ prev = NoPrev
    /\ rw = NewResponseWriter
    /\ gor = << >>
    /\ lg = << >>
    /\ mu = << >>

NextWriter ==
    \/ \E code \in StatusCodes : HandlerWriteHeader(code)
    \/ HandlerWrite
    \/ HandlerReturns
    \/ RequestCompleted

SpecWriter == InitWriter /\ [][NextWriter]_vars

\* the status_code of the "request completed" record
LoggedStatus == hist[Len(hist)].fields.status_code

\* C29: whatever calls of WriteHeader and Write the handler made, the
\* status_code of "request completed" is the code of the first WriteHeader
\* when that call came before any Write, and 200 when Write came first or
\* nothing was written; a later WriteHeader does not change it.
C29_StatusLogged ==
    pc = "completed" =>
        /\ hist[Len(hist)].message = "request completed"
        /\ IF WriterCalls = {}
           THEN LoggedStatus = 200
           ELSE LET first == CHOOSE i \in WriterCalls : \A j \in WriterCalls : i <= j
                IN  LoggedStatus = IF hist[first].ev = "WriteHeader"
                                   THEN hist[first].code
                                   ELSE 200

\* WriteHeader(404), then a Write and WriteHeader(500): 404 is logged
C29_Witness ==
    /\ pc = "completed"
    /\ Cardinality(WriterCalls) = 3
    /\ hist[1] = [ev |-> "WriteHeader", code |-> 404]
    /\ hist[3] = [ev |-> "WriteHeader", code |-> 500]
    /\ LoggedStatus = 404


(***************************************************************************)
(* SpecLogging: goroutines serving requests side by side, each writing one *)
(* log entry: with the Logger handleToken made when it was registered, or  *)
(* with one it derives itself by Default().WithComponent, as               *)
(* GetIdentityToken, exchangeToken, generateIdentityToken and              *)
(* RequestLoggingMiddleware do at every call.  Every Logger writes to the  *)
(* writer of the default logger.                                           *)
(***************************************************************************)
Goroutines == {"g1", "g2"}

Components == {"token", "sts", "iam", "http"}

\* the Logger struct handleToken holds for all its requests
HandlerLogger == <<"token", "handleToken">>

\* the Logger struct goroutine g got from WithComponent(component)
DerivedLogger(g, component) == <<component, g>>

\* the zero value of sync.Mutex
Unlocked == ""

\* no Logger chosen yet
NoLogger == << >>

\* WithComponent: a new Logger struct, with out, level and format of the
\* receiver and a mutex of its own
WithComponent(mutexes, logger) ==
    [l \in DOMAIN mutexes \cup {logger} |->
        IF l \in DOMAIN mutexes THEN mutexes[l] ELSE Unlocked]

Derive(g, component) ==
    /\ lg[g].pc = "idle"
    /\ mu' = WithComponent(mu, DerivedLogger(g, component))
    /\ lg' = [lg EXCEPT ![g] = [pc |-> "log", logger |-> DerivedLogger(g, component)]]
    /\ UNCHANGED <<acqVars, fnVars, srvVars, rw, gor>>

UseHandlerLogger(g) ==
    /\ lg[g].pc = "idle"
    /\ lg' = [lg EXCEPT ![g] = [pc |-> "log", logger |-> HandlerLogger]]
    /\ UNCHANGED <<acqVars, fnVars, srvVars, rw, gor, mu>>

\* l.mu.Lock() of Logger.log; the goroutine is then inside writeJSON or
\* writeText
Lock(g) ==
    /\ lg[g].pc = "log"
    /\ mu[lg[g].logger] = Unlocked
    /\ mu' = [mu EXCEPT ![lg[g].logger] = g]
    /\ lg' = [lg EXCEPT ![g].pc = "write"]
    /\ UNCHANGED <<acqVars, fnVars, srvVars, rw, gor>>

\* the write returns and the deferred l.mu.Unlock() runs
Unlock(g) ==
    /\ lg[g].pc = "write"
    /\ mu' = [mu EXCEPT ![lg[g].logger] = Unlocked]
    /\ lg' = [lg EXCEPT ![g].pc = "done"]
    /\ UNCHANGED <<acqVars, fnVars, srvVars, rw, gor>>

InitLogging ==
    /\ config = NoConfig
    /\ logLevel = LevelInfo
    /\ tokenFile = [ok |-> TRUE, data |-> "k8s-jwt-1"]
    /\ pc = "idle"
    /\ audience = ""
    /\ jwt = ""
    /\ accessToken = ""
    /\ result = NoResult
    /\ hist = << >>
    /\ response = NoResponse
    /\ nAcq = 0
    /\ cErr = NilError
    /\ cCat = ""
    /\ fArg = NoArg
    /\ fRes = NoRes
    /\ env = ImpersonationEnv
    /\ credFile = CredFileMissing
    /\ main = Listening("missing")
    /\ req = NoRequest
    /\ prev = NoPrev
    /\ rw = NewResponseWriter
    /\ gor = << >>
    /\ lg = [g \in Goroutines |-> [pc |-> "idle", logger |-> NoLogger]]
    /\ mu = [l \in {HandlerLogger} |-> Unlocked]

NextLogging ==
    \/ \E g \in Goroutines, component \in Components : Derive(g, component)
    \/ \E g \in Goroutines : UseHandlerLogger(g)
    \/ \E g \in Goroutines : Lock(g)
    \/ \E g \in Goroutines : Unlock(g)

SpecLogging == InitLogging /\ [][NextLogging]_vars

\* C28: no two goroutines are at the same time inside writeJSON/writeText on
\* the shared writer, whichever loggers they write through, loggers derived
\* with WithComponent included.
C28_WritesExclusive ==
    \A g1, g2 \in DOMAIN lg :
        (lg[g1].pc = "write" /\ lg[g2].pc = "write") => g1 = g2


(***************************************************************************)
(* SpecConcurrent: two requests in impersonation mode served side by side, *)
(* each goroutine inside its own call of GetIdentityToken, the steps of    *)
(* the two interleaved in every way while the subject-token file is        *)
(* rewritten.  The descriptor, the file and the upstreams are all they     *)
(* share.                                                                  *)
(***************************************************************************)
\* the descriptor main loaded
ConcurrentConfig == CHOOSE c \in ServerConfigs : TRUE

\* what STS and IAM answer, the tokens of two answers being different
ConcurrentSTSResponses ==
    { UpstreamHTTP(403, FALSE, "", 0),
      UpstreamHTTP(200, TRUE, "ya29.access-1", 3600),
      UpstreamHTTP(200, TRUE, "ya29.access-2", 3600) }

ConcurrentIAMResponses ==
    { UpstreamHTTP(500, FALSE, "", 0),
      UpstreamHTTP(200, TRUE, "abc.def.ghi", 3600),
      UpstreamHTTP(200, TRUE, "eyJ.id-token-2.sig", 3600) }

\* the context of the request goroutine g serves
CtxOf(g) == WithRoute(WithRequestID(Background, g), "/token")

\* a goroutine before its call: the parameter, the locals jwt and
\* accessToken, the result, and what it read, received and did
NoCall ==
    [pc |-> "idle", audience |-> "", jwt |-> "", accessToken |-> "",
     result |-> NoResult, read |-> [done |-> FALSE], sts |-> [received |-> FALSE],
     iam |-> [received |-> FALSE], hist |-> << >>]

\* locals kept in one place for all calls, as package-level variables are
Frame_Shared(g) == "g1"

\* the stack frame that holds the locals of the call of goroutine g
Frame(g) == g

CallG(g, aud) ==
    /\ gor[g].pc = "idle"
    /\ gor' = [gor EXCEPT ![g].pc = "ReadSubjectToken", ![g].audience = aud]
    /\ UNCHANGED <<acqVars, fnVars, srvVars, rw, lg, mu>>

ReadG(g) ==
    /\ gor[g].pc = "ReadSubjectToken"
    /\ LET read == [done |-> TRUE, ok |-> tokenFile.ok, data |-> tokenFile.data]
           catErr == TokenFileReadErr(StdError(FALSE, FALSE, << >>))
       IN  IF tokenFile.ok
           THEN gor' = [gor EXCEPT ![g].read = read,
                                   ![g].pc = "ExchangeSTS",
                                   ![Frame(g)].jwt = SubjectTokenRead(tokenFile)]
           ELSE gor' = [gor EXCEPT
                           ![g].read = read,
                           ![g].pc = "returned",
                           ![g].result = [identityToken |-> "", err |-> catErr],
                           ![g].hist =
                               Log(CtxOf(g), "token", LevelError, "token file read error",
                                   [error_category |-> catErr.Category,
                                    file_path |-> config.CredentialSource.File])]
    /\ UNCHANGED <<acqVars, fnVars, srvVars, rw, lg, mu>>

ExchangeG(g, resp) ==
    /\ gor[g].pc = "ExchangeSTS"
    /\ LET r == exchangeToken(CtxOf(g), config, gor[Frame(g)].jwt, resp)
       IN  IF ExchangeFailed(r.err)
           THEN gor' = [gor EXCEPT
                           ![g].sts = [received |-> TRUE, resp |-> resp],
                           ![g].hist = gor[g].hist \o r.events,
                           ![g].result = [identityToken |-> "", err |-> Propagate(r.err)],
                           ![g].pc = "returned"]
           ELSE gor' = [gor EXCEPT
                           ![g].sts = [received |-> TRUE, resp |-> resp],
                           ![g].hist = gor[g].hist \o r.events,
                           ![g].pc = "GenerateIAMToken",
                           ![Frame(g)].accessToken = r.value]
    /\ UNCHANGED <<acqVars, fnVars, srvVars, rw, lg, mu>>

GenerateG(g, resp) ==
    /\ gor[g].pc = "GenerateIAMToken"
    /\ LET r == generateIdentityToken(CtxOf(g), config, gor[Frame(g)].accessToken,
                                      gor[g].audience, resp)
       IN  IF GenerateFailed(r.err)
           THEN gor' = [gor EXCEPT
                           ![g].iam = [received |-> TRUE, resp |-> resp],
                           ![g].hist = gor[g].hist \o r.events,
                           ![g].result = [identityToken |-> "", err |-> Propagate(r.err)],
                           ![g].pc = "returned"]
           ELSE gor' = [gor EXCEPT
                           ![g].iam = [received |-> TRUE, resp |-> resp],
                           ![g].hist = (gor[g].hist \o r.events)
                                       \o Log(CtxOf(g), "token", LevelDebug,
                                              "identity token generated successfully",
                                              [audience |-> gor[g].audience]),
                           ![g].result = [identityToken |-> r.value, err |-> NilError],
                           ![g].pc = "returned"]
    /\ UNCHANGED <<acqVars, fnVars, srvVars, rw, lg, mu>>

InitConcurrent ==
    /\ config = ConcurrentConfig
    /\ logLevel = LevelInfo
    /\ tokenFile \in FileStates
    /\ pc = "idle"
    /\ audience = ""
    /\ jwt = ""
    /\ accessToken = ""
    /\ result = NoResult
    /\ hist = << >>
    /\ response = NoResponse
    /\ nAcq = 0
    /\ cErr = NilError
    /\ cCat = ""
    /\ fArg = NoArg
    /\ fRes = NoRes
    /\ env = ImpersonationEnv
    /\ credFile = CredFileWith(config)
    /\ main = Listening("ok")
    /\ req = NoRequest
    /\ prev = NoPrev
    /\ rw = NewResponseWriter
    /\ gor = [g \in Goroutines |-> NoCall]
    /\ lg = << >>
    /\ mu = << >>

NextConcurrent ==
    \/ \E g \in Goroutines, aud \in CallerAudiences : CallG(g, aud)
    \/ \E g \in Goroutines : ReadG(g)
    \/ \E g \in Goroutines, resp \in ConcurrentSTSResponses : ExchangeG(g, resp)
    \/ \E g \in Goroutines, resp \in ConcurrentIAMResponses : GenerateG(g, resp)
    \/ RotateFile

SpecConcurrent == InitConcurrent /\ [][NextConcurrent]_vars

\* what a call alone does and returns, given its audience, the file content
\* it read and the answers it received, as far as it has got
Alone(g, l) ==
    IF ~l.read.done
    THEN [hist |-> << >>, result |-> NoResult]
    ELSE IF ~l.read.ok
    THEN LET catErr == TokenFileReadErr(StdError(FALSE, FALSE, << >>))
         IN  [hist |-> Log(CtxOf(g), "token", LevelError, "token file read error",
                           [error_category |-> catErr.Category,
                            file_path |-> ConcurrentConfig.CredentialSource.File]),
              result |-> [identityToken |-> "", err |-> catErr]]
    ELSE IF ~l.sts.received
    THEN [hist |-> << >>, result |-> NoResult]
    ELSE LET x == exchangeToken(CtxOf(g), ConcurrentConfig, l.read.data, l.sts.resp)
         IN  IF x.err # NilError
             THEN [hist |-> x.events, result |-> [identityToken |-> "", err |-> x.err]]
             ELSE IF ~l.iam.received
             THEN [hist |-> x.events, result |-> NoResult]
             ELSE LET y == generateIdentityToken(CtxOf(g), ConcurrentConfig, x.value,
                                                 l.audience, l.iam.resp)
                  IN  IF y.err # NilError
                      THEN [hist |-> x.events \o y.events,
                            result |-> [identityToken |-> "", err |-> y.err]]
                      ELSE [hist |-> (x.events \o y.events)
                                     \o Log(CtxOf(g), "token", LevelDebug,
                                            "identity token generated successfully",
                                            [audience |-> l.audience]),
                            result |-> [identityToken |-> y.value, err |-> NilError]]

\* C24: however the steps of concurrent GetIdentityToken calls interleave,
\* what each call sends, logs and returns is what it would alone, given its
\* own audience, the file content it read and the answers it received; the
\* descriptor is never modified.
C24_Independent ==
    /\ config = ConcurrentConfig
    /\ \A g \in DOMAIN gor :
          /\ gor[g].hist = Alone(g, gor[g]).hist
          /\ gor[g].result = Alone(g, gor[g]).result

\* both calls returned a token: they read different contents of the file,
\* asked for different audiences and got different tokens, each its own
C24_Witness ==
    /\ gor["g1"].pc = "returned"
    /\ gor["g2"].pc = "returned"
    /\ gor["g1"].read.data # gor["g2"].read.data
    /\ gor["g1"].audience # gor["g2"].audience
    /\ gor["g1"].result.err = NilError
    /\ gor["g2"].result.err = NilError
    /\ gor["g1"].result.identityToken = gor["g1"].iam.resp.tok
    /\ gor["g2"].result.identityToken = gor["g2"].iam.resp.tok
    /\ gor["g1"].result.identityToken # gor["g2"].result.identityToken

====
